---- MODULE Spec2Model ----
(***************************************************************************)
(* The order form of src/components/ShippingForm.tsx as a state machine.   *)
(*                                                                         *)
(* A text value is a sequence of one-character strings, so that the        *)
(* regular expressions, slices and trims of the handlers are computed      *)
(* character by character.  One action is one React event: the handler,    *)
(* the re-render it causes, and the effects that re-render schedules.      *)
(***************************************************************************)
EXTENDS Integers, Sequences, FiniteSets, TLC

\* ------------------------------------------------------------------------
\* Text helpers (JavaScript string operations on sequences of characters)
\* ------------------------------------------------------------------------

DigitSeq == <<"0", "1", "2", "3", "4", "5", "6", "7", "8", "9">>

IsDigit(c) == \E i \in 1..10 : DigitSeq[i] = c

IsSpace(c) == c = " "

\* s.slice(a, b) for 0 <= a
Slice(s, a, b) == SubSeq(s, a + 1, IF b < Len(s) THEN b ELSE Len(s))

\* s.slice(a) for 0 <= a
SliceFrom(s, a) == SubSeq(s, a + 1, Len(s))

\* s.replace(/\D/g, '') and s.replace(/[^\d]/g, '')
DigitsOf(s) == SelectSeq(s, IsDigit)

RECURSIVE TrimStart(_)
TrimStart(s) ==
    IF s # <<>> /\ IsSpace(Head(s)) THEN TrimStart(Tail(s)) ELSE s

RECURSIVE TrimEnd(_)
TrimEnd(s) ==
    IF s # <<>> /\ IsSpace(s[Len(s)]) THEN TrimEnd(SubSeq(s, 1, Len(s) - 1)) ELSE s

\* s.trim()
Trim(s) == TrimEnd(TrimStart(s))

UpperOf(c) ==
    CASE c = "a" -> "A" [] c = "b" -> "B" [] c = "s" -> "S" [] c = "v" -> "V"
      [] c = "e" -> "E" [] c = "x" -> "X" [] c = "c" -> "C" [] c = "m" -> "M"
      [] OTHER -> c

\* s.toUpperCase()
ToUpperCase(s) == [i \in 1..Len(s) |-> UpperOf(s[i])]

\* a JavaScript string is truthy iff it is not empty
Truthy(s) == s # <<>>

\* ------------------------------------------------------------------------
\* Numbers: parseFloat and Number on the texts the form can hold
\* (decimal digits and dots; no sign, exponent or hexadecimal notation).
\* A number is num / den with den a power of ten; nan marks NaN.
\* ------------------------------------------------------------------------

NaN == [nan |-> TRUE, num |-> 0, den |-> 1]

RECURSIVE LeadingDigits(_)
LeadingDigits(s) ==
    IF s # <<>> /\ IsDigit(Head(s)) THEN <<Head(s)>> \o LeadingDigits(Tail(s)) ELSE <<>>

RECURSIVE DecValue(_)
DecValue(ds) ==
    IF ds = <<>> THEN 0 ELSE 10 * DecValue(SubSeq(ds, 1, Len(ds) - 1)) +
         (CHOOSE i \in 1..10 : DigitSeq[i] = ds[Len(ds)]) - 1

RECURSIVE Pow10(_)
Pow10(n) == IF n = 0 THEN 1 ELSE 10 * Pow10(n - 1)

\* the value of <int digits> [ "." <fraction digits> ], at least one digit
Decimal(ip, fp) ==
    IF ip = <<>> /\ fp = <<>> THEN NaN
    ELSE [nan |-> FALSE, num |-> DecValue(ip \o fp), den |-> Pow10(Len(fp))]

\* parseFloat(s): the longest numeric prefix, after leading white space
ParseFloat(s) ==
    LET t  == TrimStart(s)
        ip == LeadingDigits(t)
        r  == SliceFrom(t, Len(ip))
        fp == IF r # <<>> /\ Head(r) = "." THEN LeadingDigits(Tail(r)) ELSE <<>>
    IN  Decimal(ip, fp)

\* Number(s): the whole text must be a numeral; the empty text is 0
NumberOf(s) ==
    LET t  == Trim(s)
        ip == LeadingDigits(t)
        r  == SliceFrom(t, Len(ip))
        fp == IF r # <<>> /\ Head(r) = "." THEN LeadingDigits(Tail(r)) ELSE <<>>
        used == Len(ip) + (IF r # <<>> /\ Head(r) = "." THEN 1 + Len(fp) ELSE 0)
    IN  IF t = <<>> THEN [nan |-> FALSE, num |-> 0, den |-> 1]
        ELSE IF used = Len(t) THEN Decimal(ip, fp) ELSE NaN

IsNaN(v) == v.nan

\* v >= n, v > n, v <= n for an integer n (every comparison with NaN is false)
NumGe(v, n) == ~v.nan /\ v.num >= n * v.den
NumGt(v, n) == ~v.nan /\ v.num > n * v.den

\* ------------------------------------------------------------------------
\* Configuration handed to the form
\* ------------------------------------------------------------------------

\* STANDARD_STRATEGY of ProductCheckout, with product.price = 2480
StandardStrategy ==
    [type |-> "standard", basePrice |-> 2480, shippingCost |-> 0,
     sizeThreshold |-> 14, surcharge |-> 200]

\* a pricingStrategy prop of the other variant
CustomStrategy ==
    [type |-> "custom", basePrice |-> 80, shippingCost |-> 60,
     sizeThreshold |-> 14, surcharge |-> 100]

CouponCode == <<"S", "A", "V", "E">>

\* values of COUPON_CONFIG (code, discountAmount, isEnabled)
CouponSmall == [code |-> CouponCode, discountAmount |-> 100, isEnabled |-> TRUE]
CouponLarge == [code |-> CouponCode, discountAmount |-> 3000, isEnabled |-> TRUE]
CouponOff   == [code |-> CouponCode, discountAmount |-> 100, isEnabled |-> FALSE]

\* the (pricingStrategy, COUPON_CONFIG) pairs a form is constructed with
Configs ==
    { <<StandardStrategy, CouponSmall>>, <<CustomStrategy, CouponLarge>>,
      <<CustomStrategy, CouponOff>> }

\* Configs and a standard strategy whose prices a coupon can exceed
PricingConfigs ==
    Configs \cup
      { <<[type |-> "standard", basePrice |-> 90, shippingCost |-> 60,
           sizeThreshold |-> 14, surcharge |-> 50], CouponLarge>> }

PURIFICATION_BAG_COST == 200

availableColors == <<"red", "orange", "yellow", "green", "blue", "purple", "white", "black", "pink">>

\* how many of the availableColors the model offers for selection
MaxColors == 1

\* ------------------------------------------------------------------------
\* Texts the user may type or paste into each input
\* ------------------------------------------------------------------------

CanonPhone == <<"0", "9", "1", "2", "-", "3", "4", "5", "-", "6", "7", "8">>
RawPhone   == <<"0", "9", "1", "2", "3", "4", "5", "6", "7", "8">>

FieldInputs ==
    [realName  |-> { <<>>, <<" ", "A">> },
     phone     |-> { <<>>, RawPhone, <<"0", "9", "1", "2">> },
     storeName |-> { <<>>, <<" ">> },
     socialId  |-> { <<>>, <<"@", "x">> },
     storeCode |->
       { <<>>, <<"1", "2", "a", "3">>,
         <<"7", "-", "1", "1", " ", "X", "men", "shi", "(", "1", "2", "3", "4", "5", "6", ")">> }]
WristInputs  ==
    { <<>>, <<"1", "4">>, <<"1", "5", ".", "5", "c", "m">>, <<"3", "1">>,
      <<"1", ".", "2", ".", "3">> }
CouponInputs == { <<>>, <<"s", "a", "v", "e">>, <<"b", "a", "d">> }

\* a draft left in the storage by an earlier visit
SavedDraft ==
    [realName |-> <<" ", "A">>, phone |-> RawPhone,
     storeCode |-> <<"1", "2", "3", "4", "5", "6">>,
     storeName |-> <<"X", "men", "shi">>, socialId |-> <<"@", "x">>,
     wristSize |-> <<"1", "5", ".", "5">>, addPurificationBag |-> TRUE,
     preferredColors |-> <<"red">>]

\* how many events (mounts, user events, timers) one behaviour holds
MaxEvents == 5

\* ------------------------------------------------------------------------
\* State
\* ------------------------------------------------------------------------

VARIABLES
    pricingStrategy,     \* prop
    COUPON_CONFIG,       \* imported configuration
    storage,             \* localStorage entry under STORAGE_KEY
    mounted,             \* the component instance exists
    hasRestoredData,
    restoreTimer,        \* the 4000 ms timer of the restored-data effect is pending
    realName, phone, storeCode, storeName, socialId,
    wristSize, isCustomSize,
    addPurificationBag, preferredColors,
    couponInput, appliedCoupon, couponError,
    agreed,
    errors,              \* keys of the errors object, in insertion order
    totalPrice,          \* the value computed by the last render
    event,               \* what the last event did (observation only)
    steps,               \* events so far
    gateway              \* one call of syncToGoogleSheet or sendTestPing

vars ==
    <<pricingStrategy, COUPON_CONFIG, storage, mounted, hasRestoredData,
      restoreTimer, realName, phone, storeCode, storeName, socialId, wristSize,
      isCustomSize, addPurificationBag, preferredColors, couponInput, appliedCoupon,
      couponError, agreed, errors, totalPrice, event, steps, gateway>>

\* the variables of the order form
formVars ==
    <<pricingStrategy, COUPON_CONFIG, storage, mounted, hasRestoredData,
      restoreTimer, realName, phone, storeCode, storeName, socialId, wristSize,
      isCustomSize, addPurificationBag, preferredColors, couponInput, appliedCoupon,
      couponError, agreed, errors, totalPrice, event, steps>>

None == [def |-> FALSE]
Some(v) == [def |-> TRUE, val |-> v]

\* ------------------------------------------------------------------------
\* localStorage and JSON
\* ------------------------------------------------------------------------

Absent  == [kind |-> "absent"]
Corrupt == [kind |-> "text", json |-> FALSE]

\* JSON.stringify(draft): the entry holds the object's eight members
JsonStringify(draft) == [kind |-> "text", json |-> TRUE, members |-> draft]

\* JSON.parse(text): the object, or a SyntaxError
JsonParse(entry) ==
    IF entry.json THEN [threw |-> FALSE, value |-> entry.members]
    ELSE [threw |-> TRUE, value |-> <<>>]

DraftKeys ==
    {"realName", "phone", "storeCode", "storeName", "socialId", "wristSize",
     "addPurificationBag", "preferredColors"}

\* the object {} : no member is defined
EmptyObject == [k \in {} |-> TRUE]

\* LoadDraft without the try and catch around the parse
LoadDraftUncaught(entry) ==
    IF entry.kind = "absent"
    THEN [threw |-> FALSE, logged |-> FALSE, value |-> EmptyObject]
    ELSE LET p == JsonParse(entry)
         IN  [threw |-> p.threw, logged |-> FALSE, value |-> p.value]

\* initialDraft: reads the entry; a failed parse is caught, logged with
\* console.error, and gives {}
LoadDraft(entry) ==
    IF entry.kind = "absent"
    THEN [threw |-> FALSE, logged |-> FALSE, value |-> EmptyObject]
    ELSE LET p == JsonParse(entry)
         IN  IF p.threw
             THEN [threw |-> FALSE, logged |-> TRUE, value |-> EmptyObject]
             ELSE [threw |-> FALSE, logged |-> FALSE, value |-> p.value]

\* d.k || dflt for a text or array member
TextOr(d, k, dflt) == IF k \in DOMAIN d /\ d[k] # <<>> THEN d[k] ELSE dflt

\* ------------------------------------------------------------------------
\* Pricing (computed at every render)
\* ------------------------------------------------------------------------

isStandard == pricingStrategy.type = "standard"

NoCoupon == [applied |-> FALSE]

\* isSurchargeApplicable with the size rule under both variants
isSurchargeApplicableBySize(strategy, custom, size) ==
    /\ size # <<>>
    /\ ~IsNaN(NumberOf(size))
    /\ NumGe(NumberOf(size), strategy.sizeThreshold)

\* isSurchargeApplicable with > in place of >= in the size rule
isSurchargeApplicableAbove(strategy, custom, size) ==
    IF strategy.type = "standard" THEN custom
    ELSE /\ size # <<>>
         /\ ~IsNaN(NumberOf(size))
         /\ NumGt(NumberOf(size), strategy.sizeThreshold)

isSurchargeApplicable(strategy, custom, size) ==
    IF strategy.type = "standard" THEN custom
    ELSE /\ size # <<>>
         /\ ~IsNaN(NumberOf(size))
         /\ NumGe(NumberOf(size), strategy.sizeThreshold)

baseTotal(strategy, custom, size, bag) ==
    strategy.basePrice + strategy.shippingCost
      + (IF isSurchargeApplicable(strategy, custom, size) THEN strategy.surcharge ELSE 0)
      + (IF bag THEN PURIFICATION_BAG_COST ELSE 0)

discount(coupon) == IF coupon.applied THEN coupon.amount ELSE 0

\* TotalPrice without the clamp at zero
TotalPriceUnclamped(strategy, custom, size, bag, coupon) ==
    baseTotal(strategy, custom, size, bag) - discount(coupon)

TotalPrice(strategy, custom, size, bag, coupon) ==
    LET sum == baseTotal(strategy, custom, size, bag) - discount(coupon)
    IN  IF 0 > sum THEN 0 ELSE sum

\* ------------------------------------------------------------------------
\* The component's state as one record, to pass between handler and render
\* ------------------------------------------------------------------------

Form ==
    [realName |-> realName, phone |-> phone, storeCode |-> storeCode,
     storeName |-> storeName, socialId |-> socialId, wristSize |-> wristSize,
     isCustomSize |-> isCustomSize, addPurificationBag |-> addPurificationBag,
     preferredColors |-> preferredColors, couponInput |-> couponInput,
     appliedCoupon |-> appliedCoupon, couponError |-> couponError, agreed |-> agreed,
     errors |-> errors]

\* the object written by the auto-save effect
DraftOf(f) ==
    [realName |-> f.realName, phone |-> f.phone, storeCode |-> f.storeCode,
     storeName |-> f.storeName, socialId |-> f.socialId, wristSize |-> f.wristSize,
     addPurificationBag |-> f.addPurificationBag, preferredColors |-> f.preferredColors]

\* clearError(field): delete the key when present
clearError(errs, field) ==
    LET keep(e) == e # field IN SelectSeq(errs, keep)

ClearIf(cond, errs, field) == IF cond THEN clearError(errs, field) ELSE errs

\* EagerClear without the clearError call for the phone
EagerClearSkippingPhone(f) ==
    LET e1 == ClearIf(Truthy(f.realName), f.errors, "realName")
        e3 == ClearIf(Truthy(f.storeCode), e1, "storeCode")
        e4 == ClearIf(Truthy(f.storeName), e3, "storeName")
        e5 == ClearIf(Truthy(f.socialId), e4, "socialId")
        e6 == ClearIf(Truthy(f.wristSize), e5, "wristSize")
    IN  ClearIf(f.agreed, e6, "agreement")

\* the clearError calls of the auto-save effect, in order
EagerClear(f) ==
    LET e1 == ClearIf(Truthy(f.realName), f.errors, "realName")
        e2 == ClearIf(Truthy(f.phone), e1, "phone")
        e3 == ClearIf(Truthy(f.storeCode), e2, "storeCode")
        e4 == ClearIf(Truthy(f.storeName), e3, "storeName")
        e5 == ClearIf(Truthy(f.socialId), e4, "socialId")
        e6 == ClearIf(Truthy(f.wristSize), e5, "wristSize")
    IN  ClearIf(f.agreed, e6, "agreement")

\* AutoSaveDeps with storeName missing from the list
AutoSaveDepsWithoutStoreName(f) ==
    <<f.realName, f.phone, f.storeCode, f.socialId, f.wristSize,
      f.addPurificationBag, f.agreed>>

\* the dependency list of the auto-save effect, but for preferredColors,
\* which is compared by array identity
AutoSaveDeps(f) ==
    <<f.realName, f.phone, f.storeCode, f.storeName, f.socialId, f.wristSize,
      f.addPurificationBag, f.agreed>>

\* Re-render after a handler left the state n and the storage entry st:
\* totalPrice is recomputed and the auto-save effect runs when it is due.
Render(n, st, newColorsArray, ev) ==
    LET due == AutoSaveDeps(Form) # AutoSaveDeps(n) \/ newColorsArray
    IN  /\ realName' = n.realName
        /\ phone' = n.phone
        /\ storeCode' = n.storeCode
        /\ storeName' = n.storeName
        /\ socialId' = n.socialId
        /\ wristSize' = n.wristSize
        /\ isCustomSize' = n.isCustomSize
        /\ addPurificationBag' = n.addPurificationBag
        /\ preferredColors' = n.preferredColors
        /\ couponInput' = n.couponInput
        /\ appliedCoupon' = n.appliedCoupon
        /\ couponError' = n.couponError
        /\ agreed' = n.agreed
        /\ errors' = IF due THEN EagerClear(n) ELSE n.errors
        /\ storage' = IF due THEN JsonStringify(DraftOf(n)) ELSE st
        /\ totalPrice' = TotalPrice(pricingStrategy, n.isCustomSize, n.wristSize,
                                    n.addPurificationBag, n.appliedCoupon)
        /\ event' = ev
        /\ UNCHANGED <<pricingStrategy, COUPON_CONFIG, mounted, hasRestoredData,
                       restoreTimer>>

\* an event record: the handler that ran, the text it was given (for the
\* phone and store-code inputs) and what it did
Event(op) ==
    [op |-> op, input |-> <<>>, removed |-> 0, threw |-> FALSE, logged |-> FALSE,
     initialDraft |-> None, newErrors |-> <<>>, shakingField |-> "none",
     focused |-> "none", emitted |-> None]

\* ------------------------------------------------------------------------
\* Input handlers (pure parts)
\* ------------------------------------------------------------------------

Dash == <<"-">>

\* handlePhoneChange keeping every digit of the text
handlePhoneChangeUntruncated(cur, val) ==
    IF Len(val) < Len(cur) THEN val
    ELSE LET rawValue == DigitsOf(val)
         IN  IF Len(rawValue) > 7
               THEN Slice(rawValue, 0, 4) \o Dash \o Slice(rawValue, 4, 7) \o Dash
                      \o SliceFrom(rawValue, 7)
             ELSE IF Len(rawValue) > 4
               THEN Slice(rawValue, 0, 4) \o Dash \o SliceFrom(rawValue, 4)
             ELSE rawValue

\* handlePhoneChange: the text stored for the input text val
handlePhoneChange(cur, val) ==
    IF Len(val) < Len(cur) THEN val
    ELSE LET rawValue  == DigitsOf(val)
             truncated == Slice(rawValue, 0, 10)
         IN  IF Len(truncated) > 7
               THEN Slice(truncated, 0, 4) \o Dash \o Slice(truncated, 4, 7) \o Dash
                      \o SliceFrom(truncated, 7)
             ELSE IF Len(truncated) > 4
               THEN Slice(truncated, 0, 4) \o Dash \o SliceFrom(truncated, 4)
             ELSE truncated

\* index of the first occurrence of pat in s at or after i; 0 when there is none
RECURSIVE IndexOfFrom(_, _, _)
IndexOfFrom(s, pat, i) ==
    IF i + Len(pat) - 1 > Len(s) THEN 0
    ELSE IF SubSeq(s, i, i + Len(pat) - 1) = pat THEN i
    ELSE IndexOfFrom(s, pat, i + 1)

\* s.replace(pat, rep) for a text pattern: the first occurrence
ReplaceFirst(s, pat, rep) ==
    LET i == IndexOfFrom(s, pat, 1)
    IN  IF i = 0 THEN s
        ELSE SubSeq(s, 1, i - 1) \o rep \o SubSeq(s, i + Len(pat), Len(s))

\* s.replace(/pat/g, rep) for a literal pattern
RECURSIVE ReplaceAll(_, _, _)
ReplaceAll(s, pat, rep) ==
    LET i == IndexOfFrom(s, pat, 1)
    IN  IF i = 0 THEN s
        ELSE SubSeq(s, 1, i - 1) \o rep
               \o ReplaceAll(SubSeq(s, i + Len(pat), Len(s)), pat, rep)

\* s.replace(/[()（）]/g, ' ') ; "fw(" and "fw)" are the full-width brackets
BracketsToSpace(s) ==
    [i \in 1..Len(s) |-> IF s[i] \in {"(", ")", "fw(", "fw)"} THEN " " ELSE s[i]]

\* "men" "shi" are the two characters of the store suffix, "dian" "hao" the
\* two characters of the store-number label
StoreSuffix == <<"men", "shi">>

\* val.match(/(\d{6})/): index of the leftmost run of six digits, 0 when none
RECURSIVE SixDigitsFrom(_, _)
SixDigitsFrom(s, i) ==
    IF i + 5 > Len(s) THEN 0
    ELSE IF \A j \in i..(i + 5) : IsDigit(s[j]) THEN i
    ELSE SixDigitsFrom(s, i + 1)

\* the end of the longest match of \S+<suffix> starting at i, 0 when none
SuffixMatchEnd(s, i) ==
    LET ends == { j \in (i + 1)..(Len(s) - 1) :
                    /\ s[j] = StoreSuffix[1]
                    /\ s[j + 1] = StoreSuffix[2]
                    /\ \A k \in i..(j + 1) : ~IsSpace(s[k]) }
    IN  IF ends = {} THEN 0 ELSE (CHOOSE j \in ends : \A m \in ends : m <= j) + 1

\* possibleName.match(/(\S+<suffix>)/): the leftmost match, <<>> when none
RECURSIVE SuffixMatchFrom(_, _)
SuffixMatchFrom(s, i) ==
    IF i > Len(s) THEN <<>>
    ELSE IF SuffixMatchEnd(s, i) # 0 THEN SubSeq(s, i, SuffixMatchEnd(s, i))
    ELSE SuffixMatchFrom(s, i + 1)

\* possibleName.split(/\s+/)[0] for a trimmed text
RECURSIVE FirstPart(_)
FirstPart(s) ==
    IF s = <<>> \/ IsSpace(Head(s)) THEN <<>> ELSE <<Head(s)>> \o FirstPart(Tail(s))

\* handleStoreCodeChange: the form state after the input text val
handleStoreCodeChange(f, val) ==
    LET at == IF Len(val) > 8 THEN SixDigitsFrom(val, 1) ELSE 0
    IN  IF at # 0
        THEN LET code == SubSeq(val, at, at + 5)
                 possibleName ==
                     Trim(ReplaceAll(
                            BracketsToSpace(
                              ReplaceAll(
                                ReplaceAll(ReplaceFirst(val, code, <<>>), <<"7", "-", "1", "1">>, <<>>),
                                <<"dian", "hao">>, <<>>)),
                            StoreSuffix, StoreSuffix \o <<" ">>))
                 nameMatch == SuffixMatchFrom(possibleName, 1)
                 part0 == FirstPart(possibleName)
                 f1 == [f EXCEPT !.storeCode = code,
                                 !.errors = clearError(f.errors, "storeCode")]
             IN  IF nameMatch # <<>>
                   THEN [f1 EXCEPT !.storeName = nameMatch,
                                   !.errors = clearError(f1.errors, "storeName")]
                 ELSE IF Len(part0) >= 2
                   THEN [f1 EXCEPT !.storeName = part0,
                                   !.errors = clearError(f1.errors, "storeName")]
                 ELSE f1
        ELSE [f EXCEPT !.storeCode = Slice(DigitsOf(val), 0, 6)]

\* index of the first "cm" in any letter case, 0 when none
RECURSIVE CmFrom(_, _)
CmFrom(s, i) ==
    IF i + 1 > Len(s) THEN 0
    ELSE IF s[i] \in {"c", "C"} /\ s[i + 1] \in {"m", "M"} THEN i
    ELSE CmFrom(s, i + 1)

\* handleWristSizeChange: the text stored for the input text val
handleWristSizeChange(cur, val) ==
    LET i    == CmFrom(val, 1)
        noCm == IF i = 0 THEN val ELSE SubSeq(val, 1, i - 1) \o SubSeq(val, i + 2, Len(val))
        v    == SelectSeq(noCm, LAMBDA c : IsDigit(c) \/ c = ".")
    IN  IF Len(SelectSeq(v, LAMBDA c : c = ".")) + 1 > 2 THEN cur ELSE v

\* toggleColor
toggleColor(colors, color) ==
    IF \E i \in 1..Len(colors) : colors[i] = color
    THEN LET keep(c) == c # color IN SelectSeq(colors, keep)
    ELSE Append(colors, color)

\* handleApplyCoupon
\* handleApplyCoupon comparing the codes as typed, without toUpperCase
handleApplyCouponCaseSensitive(f, cfg) ==
    LET f0 == [f EXCEPT !.couponError = "none"]
    IN  IF ~Truthy(Trim(f.couponInput)) THEN f0
        ELSE IF ~cfg.isEnabled THEN [f0 EXCEPT !.couponError = "disabled"]
        ELSE IF Trim(f.couponInput) = cfg.code
          THEN [f0 EXCEPT !.appliedCoupon =
                             [applied |-> TRUE, code |-> cfg.code,
                              amount |-> cfg.discountAmount],
                          !.couponError = "none"]
        ELSE [f0 EXCEPT !.couponError = "invalid", !.appliedCoupon = NoCoupon]

handleApplyCoupon(f, cfg) ==
    LET f0 == [f EXCEPT !.couponError = "none"]
    IN  IF ~Truthy(Trim(f.couponInput)) THEN f0
        ELSE IF ~cfg.isEnabled THEN [f0 EXCEPT !.couponError = "disabled"]
        ELSE IF ToUpperCase(Trim(f.couponInput)) = ToUpperCase(cfg.code)
          THEN [f0 EXCEPT !.appliedCoupon =
                             [applied |-> TRUE, code |-> cfg.code,
                              amount |-> cfg.discountAmount],
                          !.couponError = "none"]
        ELSE [f0 EXCEPT !.couponError = "invalid", !.appliedCoupon = NoCoupon]

\* ------------------------------------------------------------------------
\* Validation (the rules of validateAndSubmit)
\* ------------------------------------------------------------------------

\* /^09\d{8}$/.test(cleanPhone)
PhonePattern(cleanPhone) ==
    /\ Len(cleanPhone) = 10
    /\ cleanPhone[1] = "0"
    /\ cleanPhone[2] = "9"
    /\ \A i \in 3..10 : IsDigit(cleanPhone[i])

\* /^\d{6}$/.test(storeCode)
StoreCodePattern(code) == Len(code) = 6 /\ \A i \in 1..6 : IsDigit(code[i])

\* WristInvalid without the ceiling of 30
WristInvalidNoCeiling(size) ==
    LET sizeNum == ParseFloat(size)
    IN  ~Truthy(size) \/ IsNaN(sizeNum) \/ ~NumGt(sizeNum, 0)

WristInvalid(size) ==
    LET sizeNum == ParseFloat(size)
    IN  ~Truthy(size) \/ IsNaN(sizeNum) \/ ~NumGt(sizeNum, 0) \/ NumGt(sizeNum, 30)

AddIf(cond, errs, field) == IF cond THEN Append(errs, field) ELSE errs

\* NewErrors with the agreement rule left out
NewErrorsWithoutAgreement(f) ==
    LET e1 == AddIf(~Truthy(Trim(f.realName)), <<>>, "realName")
        e2 == AddIf(~PhonePattern(DigitsOf(f.phone)), e1, "phone")
        e3 == AddIf(~StoreCodePattern(f.storeCode), e2, "storeCode")
        e4 == AddIf(~Truthy(Trim(f.storeName)), e3, "storeName")
        e5 == AddIf(~Truthy(Trim(f.socialId)), e4, "socialId")
    IN  AddIf(WristInvalid(f.wristSize), e5, "wristSize")

\* NewErrors with the agreement rule evaluated first
NewErrorsAgreementFirst(f) ==
    LET e0 == AddIf(~f.agreed, <<>>, "agreement")
        e1 == AddIf(~Truthy(Trim(f.realName)), e0, "realName")
        e2 == AddIf(~PhonePattern(DigitsOf(f.phone)), e1, "phone")
        e3 == AddIf(~StoreCodePattern(f.storeCode), e2, "storeCode")
        e4 == AddIf(~Truthy(Trim(f.storeName)), e3, "storeName")
        e5 == AddIf(~Truthy(Trim(f.socialId)), e4, "socialId")
    IN  AddIf(WristInvalid(f.wristSize), e5, "wristSize")

\* newErrors: the keys assigned, in the order of assignment
NewErrors(f) ==
    LET e1 == AddIf(~Truthy(Trim(f.realName)), <<>>, "realName")
        e2 == AddIf(~PhonePattern(DigitsOf(f.phone)), e1, "phone")
        e3 == AddIf(~StoreCodePattern(f.storeCode), e2, "storeCode")
        e4 == AddIf(~Truthy(Trim(f.storeName)), e3, "storeName")
        e5 == AddIf(~Truthy(Trim(f.socialId)), e4, "socialId")
        e6 == AddIf(WristInvalid(f.wristSize), e5, "wristSize")
    IN  AddIf(~f.agreed, e6, "agreement")

\* finalPhone: the dashed form when the phone rule passes, else the text as it is
FinalPhone(p) ==
    LET cleanPhone == DigitsOf(p)
    IN  IF PhonePattern(cleanPhone)
        THEN Slice(cleanPhone, 0, 4) \o Dash \o Slice(cleanPhone, 4, 7) \o Dash
               \o SliceFrom(cleanPhone, 7)
        ELSE p

\* ShippingDetails with the phone text of the input instead of finalPhone
ShippingDetailsLivePhone(f, finalPhone, total) ==
    [realName |-> Trim(f.realName), phone |-> f.phone, storeCode |-> f.storeCode,
     storeName |-> Trim(f.storeName), socialId |-> Trim(f.socialId),
     wristSize |-> f.wristSize, addPurificationBag |-> f.addPurificationBag,
     preferredColors |-> f.preferredColors,
     couponCode |-> IF f.appliedCoupon.applied THEN Some(f.appliedCoupon.code) ELSE None,
     discountAmount |-> IF f.appliedCoupon.applied THEN Some(f.appliedCoupon.amount) ELSE None,
     totalPrice |-> total]

\* the object passed to onSubmit
ShippingDetails(f, finalPhone, total) ==
    [realName |-> Trim(f.realName), phone |-> finalPhone, storeCode |-> f.storeCode,
     storeName |-> Trim(f.storeName), socialId |-> Trim(f.socialId),
     wristSize |-> f.wristSize, addPurificationBag |-> f.addPurificationBag,
     preferredColors |-> f.preferredColors,
     couponCode |-> IF f.appliedCoupon.applied THEN Some(f.appliedCoupon.code) ELSE None,
     discountAmount |-> IF f.appliedCoupon.applied THEN Some(f.appliedCoupon.amount) ELSE None,
     totalPrice |-> total]

\* ------------------------------------------------------------------------
\* Mounting and unmounting
\* ------------------------------------------------------------------------

BaselineSize == <<"1", "4">>

\* the useState initialisers
InitialForm(d, strategy) ==
    [realName |-> TextOr(d, "realName", <<>>),
     phone |-> TextOr(d, "phone", <<>>),
     storeCode |-> TextOr(d, "storeCode", <<>>),
     storeName |-> TextOr(d, "storeName", <<>>),
     socialId |-> TextOr(d, "socialId", <<>>),
     wristSize |-> TextOr(d, "wristSize",
                          IF strategy.type = "standard" THEN BaselineSize ELSE <<>>),
     isCustomSize |-> /\ strategy.type = "standard"
                      /\ TextOr(d, "wristSize", <<>>) # <<>>
                      /\ TextOr(d, "wristSize", <<>>) # BaselineSize,
     addPurificationBag |-> "addPurificationBag" \in DOMAIN d /\ d.addPurificationBag,
     preferredColors |-> TextOr(d, "preferredColors", <<>>),
     couponInput |-> <<>>, appliedCoupon |-> NoCoupon, couponError |-> "none",
     agreed |-> FALSE, errors |-> <<>>]

\* the condition of the restored-data effect
RestoredCondition(d) ==
    TextOr(d, "realName", <<>>) # <<>> \/ TextOr(d, "storeCode", <<>>) # <<>>

\* the state variables of a component instance set from the record n
SetForm(n) ==
    /\ realName' = n.realName
    /\ phone' = n.phone
    /\ storeCode' = n.storeCode
    /\ storeName' = n.storeName
    /\ socialId' = n.socialId
    /\ wristSize' = n.wristSize
    /\ isCustomSize' = n.isCustomSize
    /\ addPurificationBag' = n.addPurificationBag
    /\ preferredColors' = n.preferredColors
    /\ couponInput' = n.couponInput
    /\ appliedCoupon' = n.appliedCoupon
    /\ couponError' = n.couponError
    /\ agreed' = n.agreed
    /\ errors' = n.errors

\* the same variables in an initial state
SetFormNow(n) ==
    /\ realName = n.realName
    /\ phone = n.phone
    /\ storeCode = n.storeCode
    /\ storeName = n.storeName
    /\ socialId = n.socialId
    /\ wristSize = n.wristSize
    /\ isCustomSize = n.isCustomSize
    /\ addPurificationBag = n.addPurificationBag
    /\ preferredColors = n.preferredColors
    /\ couponInput = n.couponInput
    /\ appliedCoupon = n.appliedCoupon
    /\ couponError = n.couponError
    /\ agreed = n.agreed
    /\ errors = n.errors

\* no instance: every state variable of the component is gone
Gone(st, ev) ==
    /\ mounted' = FALSE
    /\ SetForm(InitialForm(EmptyObject, CustomStrategy))
    /\ hasRestoredData' = FALSE
    /\ restoreTimer' = FALSE
    /\ totalPrice' = 0
    /\ storage' = st
    /\ event' = ev
    /\ UNCHANGED <<pricingStrategy, COUPON_CONFIG>>

\* first render of a new instance, then its effects: the auto-save effect
\* writes the entry and the restored-data effect raises the signal
FirstRender ==
    LET ld == LoadDraft(storage)
        n  == InitialForm(ld.value, pricingStrategy)
    IN  IF ld.threw
        THEN Gone(storage, [Event("mount") EXCEPT !.threw = TRUE])
        ELSE /\ mounted' = TRUE
             /\ SetForm([n EXCEPT !.errors = EagerClear(n)])
             /\ storage' = JsonStringify(DraftOf(n))
             /\ hasRestoredData' = RestoredCondition(ld.value)
             /\ restoreTimer' = RestoredCondition(ld.value)
             /\ totalPrice' = TotalPrice(pricingStrategy, n.isCustomSize, n.wristSize,
                                         n.addPurificationBag, n.appliedCoupon)
             /\ event' = [Event("mount") EXCEPT !.initialDraft = Some(ld.value),
                                                !.logged = ld.logged]
             /\ UNCHANGED <<pricingStrategy, COUPON_CONFIG>>

\* the parent starts rendering the form
Mount ==
    /\ ~mounted
    /\ FirstRender

\* the page is reloaded: the instance is dropped and a new one is built
\* from the stored entry
Reload ==
    /\ mounted
    /\ FirstRender

\* the parent stops rendering the form, or the page is left
Unmount ==
    /\ mounted
    /\ Gone(storage, Event("unmount"))

\* the 4000 ms timer of the restored-data effect
RestoredTimeout ==
    /\ mounted
    /\ restoreTimer
    /\ hasRestoredData' = FALSE
    /\ restoreTimer' = FALSE
    /\ event' = Event("other")
    /\ UNCHANGED <<pricingStrategy, COUPON_CONFIG, storage, mounted, realName,
                   phone, storeCode, storeName, socialId, wristSize, isCustomSize,
                   addPurificationBag, preferredColors, couponInput, appliedCoupon,
                   couponError, agreed, errors, totalPrice>>

\* ------------------------------------------------------------------------
\* User events
\* ------------------------------------------------------------------------

SetRealName(inputs) ==
    /\ mounted
    /\ \E val \in inputs :
         Render([Form EXCEPT !.realName = val], storage, FALSE, Event("other"))

PhoneChange(inputs) ==
    /\ mounted
    /\ \E val \in inputs :
         Render([Form EXCEPT !.phone = handlePhoneChange(phone, val)], storage, FALSE,
                [Event("phoneChange") EXCEPT !.input = val])

StoreCodeChange(inputs) ==
    /\ mounted
    /\ \E val \in inputs :
         Render(handleStoreCodeChange(Form, val), storage, FALSE,
                [Event("storeCodeChange") EXCEPT !.input = val])

SetStoreName(inputs) ==
    /\ mounted
    /\ \E val \in inputs :
         Render([Form EXCEPT !.storeName = val], storage, FALSE, Event("other"))

SetSocialId(inputs) ==
    /\ mounted
    /\ \E val \in inputs :
         Render([Form EXCEPT !.socialId = val], storage, FALSE, Event("other"))

\* the size input is shown in the custom variant, and in the standard
\* variant while the custom-size toggle is on
WristSizeChange(inputs) ==
    /\ mounted
    /\ ~isStandard \/ isCustomSize
    /\ \E val \in inputs :
         Render([Form EXCEPT !.wristSize = handleWristSizeChange(wristSize, val)],
                storage, FALSE, Event("other"))

\* ToggleCustomSize without the reset of the size text
ToggleCustomSizeKeepingSize ==
    /\ mounted
    /\ isStandard
    /\ Render([Form EXCEPT !.isCustomSize = ~isCustomSize], storage, FALSE, Event("other"))

\* the custom-size checkbox, rendered in the standard variant only
ToggleCustomSize ==
    /\ mounted
    /\ isStandard
    /\ LET checked == ~isCustomSize
       IN  Render([Form EXCEPT !.isCustomSize = checked,
                               !.wristSize = IF ~checked THEN BaselineSize ELSE <<>>],
                  storage, FALSE, Event("other"))

SetAddPurificationBag ==
    /\ mounted
    /\ Render([Form EXCEPT !.addPurificationBag = ~addPurificationBag], storage, FALSE,
              Event("other"))

ToggleColor ==
    /\ mounted
    /\ \E i \in 1..MaxColors :
         Render([Form EXCEPT !.preferredColors = toggleColor(preferredColors, availableColors[i])],
                storage, TRUE, Event("other"))

SetAgreed ==
    /\ mounted
    /\ Render([Form EXCEPT !.agreed = ~agreed], storage, FALSE, Event("other"))

\* the coupon input and its button are rendered while the coupon system is
\* enabled and no coupon is applied
CouponBoxRendered == COUPON_CONFIG.isEnabled /\ ~appliedCoupon.applied

SetCouponInput(inputs) ==
    /\ mounted
    /\ CouponBoxRendered
    /\ \E val \in inputs :
         Render([Form EXCEPT !.couponInput = val], storage, FALSE, Event("other"))

ApplyCoupon ==
    /\ mounted
    /\ CouponBoxRendered
    /\ Render(handleApplyCoupon(Form, COUPON_CONFIG), storage, FALSE, Event("other"))

\* RemoveCoupon leaving the text of the coupon input in place
RemoveCouponKeepingInput ==
    /\ mounted
    /\ appliedCoupon.applied
    /\ Render([Form EXCEPT !.appliedCoupon = NoCoupon], storage, FALSE,
              Event("removeCoupon"))

\* the remove button, rendered while a coupon is applied
RemoveCoupon ==
    /\ mounted
    /\ appliedCoupon.applied
    /\ Render([Form EXCEPT !.appliedCoupon = NoCoupon, !.couponInput = <<>>], storage,
              FALSE, Event("removeCoupon"))

\* SubmitRejected with removeItem called ahead of the check for errors
SubmitRejectedRemoving ==
    /\ mounted
    /\ NewErrors(Form) # <<>>
    /\ LET newErrors  == NewErrors(Form)
           firstField == Head(newErrors)
       IN  Render([Form EXCEPT !.phone = FinalPhone(phone), !.errors = newErrors],
                  Absent, FALSE,
                  [Event("submit") EXCEPT !.newErrors = newErrors,
                                          !.removed = 1,
                                          !.shakingField = firstField,
                                          !.focused = firstField])

\* validateAndSubmit with failing rules: the errors are set and the first
\* key is shaken (triggerShake), scrolled to and focused (refs[firstField]).
\* shakingField is read by no handler and is reset by a 500 ms timer; it is
\* kept in the event record with the field scrolled to and focused.
SubmitRejected ==
    /\ mounted
    /\ NewErrors(Form) # <<>>
    /\ LET newErrors  == NewErrors(Form)
           firstField == Head(newErrors)
       IN  Render([Form EXCEPT !.phone = FinalPhone(phone), !.errors = newErrors],
                  storage, FALSE,
                  [Event("submit") EXCEPT !.newErrors = newErrors,
                                          !.shakingField = firstField,
                                          !.focused = firstField])

\* validateAndSubmit with no failing rule: the entry is removed and the
\* record handed to onSubmit; the form is rendered again unless the parent
\* drops it in the same update
SubmitAccepted ==
    /\ mounted
    /\ NewErrors(Form) = <<>>
    /\ \E parentUnmounts \in BOOLEAN :
         LET finalPhone == FinalPhone(phone)
             ev == [Event("submit") EXCEPT
                      !.removed = 1,
                      !.emitted = Some(ShippingDetails(Form, finalPhone, totalPrice))]
         IN  IF parentUnmounts
             THEN Gone(Absent, ev)
             ELSE Render([Form EXCEPT !.phone = finalPhone, !.errors = <<>>], Absent,
                         FALSE, ev)

\* ------------------------------------------------------------------------
\* googleSheetService: JavaScript values
\* ------------------------------------------------------------------------

Undefined == [t |-> "undefined"]
Null      == [t |-> "null"]
Str(s)    == [t |-> "string", v |-> s]
Num(n)    == [t |-> "number", v |-> n]
Bool(b)   == [t |-> "boolean", v |-> b]
Arr(a)    == [t |-> "array", v |-> a]
Obj(o)    == [t |-> "object", v |-> o]

\* the truthiness of a value
JsTruthy(x) ==
    CASE x.t \in {"undefined", "null"} -> FALSE
      [] x.t = "string"  -> x.v # <<>>
      [] x.t = "number"  -> x.v # 0
      [] x.t = "boolean" -> x.v
      [] OTHER           -> TRUE

\* a || b
JsOr(a, b) == IF JsTruthy(a) THEN a ELSE b

\* object?.member
Member(object, k) == IF object.t = "object" THEN object.v[k] ELSE Undefined

\* the text a template literal or String() gives for a value
TextOf(x) ==
    CASE x.t = "string"    -> x.v
      [] x.t = "number"    -> <<ToString(x.v)>>
      [] x.t = "boolean"   -> <<ToString(x.v)>>
      [] x.t = "undefined" -> <<"undefined">>
      [] x.t = "null"      -> <<"null">>

\* array.join(sep) of an array of texts
RECURSIVE Join(_, _)
Join(a, sep) ==
    IF a = <<>> THEN <<>>
    ELSE IF Len(a) = 1 THEN a[1]
    ELSE a[1] \o sep \o Join(Tail(a), sep)

\* const sanitize = (val) => (val === undefined || val === null) ? "" : val
sanitize(val) == IF val.t \in {"undefined", "null"} THEN Str(<<>>) ELSE val

\* ------------------------------------------------------------------------
\* googleSheetService: the image field
\* ------------------------------------------------------------------------

Base64Marker == "base64,"

\* text.startsWith('http')
StartsWithHttp(text) == text # <<>> /\ text[1] = "http"

\* text.includes('base64,')
IncludesMarker(text) == \E i \in 1..Len(text) : text[i] = Base64Marker

\* the text up to the first marker, or the whole text
RECURSIVE UpToMarker(_)
UpToMarker(text) ==
    IF text = <<>> \/ Head(text) = Base64Marker THEN <<>>
    ELSE <<Head(text)>> \o UpToMarker(Tail(text))

\* text.split('base64,')[1], for a text that includes the marker
AfterMarker(text) ==
    UpToMarker(SubSeq(text, Len(UpToMarker(text)) + 2, Len(text)))

\* what compressBase64Image(image, 0.6) may do: resolve with a data URL,
\* resolve with a text without the marker, or reject
CompressorOutcomes ==
    { [threw |-> FALSE, value |-> <<"data:image/jpeg;", Base64Marker, "aa">>],
      [threw |-> FALSE, value |-> <<"data:,">>],
      [threw |-> TRUE] }

\* cleanBase64 after the try/catch around the compressor
CleanBase64(original, outcome) ==
    IF ~outcome.threw
      THEN IF IncludesMarker(outcome.value) THEN AfterMarker(outcome.value) ELSE <<>>
    ELSE IF IncludesMarker(original) THEN AfterMarker(original)
    ELSE <<>>

\* ------------------------------------------------------------------------
\* googleSheetService: records handed to the gateway
\* ------------------------------------------------------------------------

\* the analysis of a record: missing, complete, or an object none of whose
\* members is set
Analyses ==
    { Undefined,
      Obj([bazi |-> Obj([year |-> Str(<<"jia-zi">>), month |-> Str(<<"yi-chou">>),
                         day |-> Str(<<"bing-yin">>), time |-> Str(<<"ding-mao">>)]),
           fiveElements |-> Obj([gold |-> Num(1), wood |-> Num(2), water |-> Num(3),
                                 fire |-> Num(0), earth |-> Num(2)]),
           zodiacSign |-> Str(<<"Leo">>), element |-> Str(<<"fire">>),
           luckyElement |-> Str(<<"water">>),
           suggestedCrystals |-> Arr(<< <<"quartz">>, <<"jade">> >>),
           reasoning |-> Str(<<"because">>), visualDescription |-> Str(<<"blue beads">>),
           colorPalette |-> Arr(<< <<"#fff">> >>)]),
      Obj([bazi |-> Undefined, fiveElements |-> Undefined, zodiacSign |-> Undefined,
           element |-> Undefined, luckyElement |-> Undefined,
           suggestedCrystals |-> Undefined, reasoning |-> Undefined,
           visualDescription |-> Undefined, colorPalette |-> Undefined]) }

FullDetails ==
    Obj([realName |-> Str(<<"A">>), phone |-> Str(CanonPhone),
         storeCode |-> Str(<<"1", "2", "3", "4", "5", "6">>),
         storeName |-> Str(<<"X", "men", "shi">>), socialId |-> Str(<<"@", "x">>),
         wristSize |-> Str(<<"1", "5", ".", "5">>), addPurificationBag |-> Bool(TRUE),
         preferredColors |-> Arr(<< <<"red">>, <<"blue">> >>), totalPrice |-> Num(2780),
         couponCode |-> Str(CouponCode), discountAmount |-> Num(100)])

\* the CustomerRecord arguments: every member may be missing
Records ==
    { [id |-> id, name |-> name,
       gender |-> birth[1], birthDate |-> birth[2], birthTime |-> birth[3],
       isTimeUnsure |-> birth[4],
       wish |-> wish[1], wishes |-> wish[2],
       analysis |-> analysis, shippingDetails |-> details,
       generatedImageUrl |-> image, isStandardProduct |-> standard,
       createdAt |-> created] :
        id \in {Null, Str(<<"R1">>)},
        name \in {Undefined, Str(<<"Amy">>)},
        birth \in { <<Undefined, Undefined, Undefined, Undefined>>,
                    <<Str(<<"F">>), Str(<<"2000-01-01">>), Str(<<"12:00">>), Bool(FALSE)>>,
                    <<Str(<<"F">>), Str(<<"2000-01-01">>), Undefined, Bool(TRUE)>> },
        wish \in { <<Undefined, Undefined>>,
                   <<Str(<<"health">>),
                     Arr(<< [type |-> Str(<<"love">>), description |-> Str(<<"calm">>)],
                         [type |-> Str(<<"work">>), description |-> Undefined] >>)>> },
        analysis \in Analyses,
        \* no details, full details, an order without a coupon, bag or colours
        details \in
          { Undefined, FullDetails,
            Obj([realName |-> Str(<<"A">>), phone |-> Str(CanonPhone),
                 storeCode |-> Str(<<"1", "2", "3", "4", "5", "6">>),
                 storeName |-> Str(<<"X", "men", "shi">>), socialId |-> Str(<<"@", "x">>),
                 wristSize |-> Str(<<"1", "4">>), addPurificationBag |-> Bool(FALSE),
                 preferredColors |-> Arr(<<>>), totalPrice |-> Num(2480),
                 couponCode |-> Undefined, discountAmount |-> Undefined]) },
        \* no image, a remote URL, encoded data, data without the marker
        image \in {Undefined, Str(<<"http", "s://cdn/a.png">>),
                   Str(<<"data:image/png;", Base64Marker, "AAAA">>), Str(<<"AAAA">>)},
        standard \in {Undefined, Bool(TRUE)},
        created \in {Num(1700000000)} }

\* ------------------------------------------------------------------------
\* googleSheetService: the payload
\* ------------------------------------------------------------------------

NotApplicable == Str(<<"N/A">>)

\* const isStandard = !!record.isStandardProduct
IsStandardProduct(record) == JsTruthy(record.isStandardProduct)

baziStr(record) ==
    LET bazi == Member(record.analysis, "bazi")
    IN  IF JsTruthy(bazi)
          THEN Str(TextOf(Member(bazi, "year")) \o <<"/">> \o TextOf(Member(bazi, "month"))
                   \o <<"/">> \o TextOf(Member(bazi, "day")) \o <<"/">>
                   \o TextOf(Member(bazi, "time")))
        ELSE IF IsStandardProduct(record) THEN Str(<<"N/A (standard)">>)
        ELSE Str(<<>>)

elementsStr(record) ==
    LET five == Member(record.analysis, "fiveElements")
    IN  IF JsTruthy(five)
          THEN Str(<<"gold:">> \o TextOf(Member(five, "gold"))
                   \o <<" wood:">> \o TextOf(Member(five, "wood"))
                   \o <<" water:">> \o TextOf(Member(five, "water"))
                   \o <<" fire:">> \o TextOf(Member(five, "fire"))
                   \o <<" earth:">> \o TextOf(Member(five, "earth")))
        ELSE IF IsStandardProduct(record) THEN NotApplicable
        ELSE Str(<<>>)

wishStr(record) ==
    IF JsTruthy(record.wishes) /\ record.wishes.t = "array"
      \* record.wishes.map(w => `[${w.type}]${w.description}`).join('\n')
      THEN LET wishes == record.wishes.v
           IN  Str(Join([i \in 1..Len(wishes) |->
                           <<"[">> \o TextOf(wishes[i].type) \o <<"]">>
                           \o TextOf(wishes[i].description)],
                        <<"\\n">>))
    ELSE IF IsStandardProduct(record) THEN Str(<<"standard order">>)
    ELSE JsOr(record.wish, Str(<<>>))

\* record.shippingDetails || { the default object }
DetailsOf(record) ==
    JsOr(record.shippingDetails,
         Obj([realName |-> Str(<<>>), phone |-> Str(<<>>), storeCode |-> Str(<<>>),
              storeName |-> Str(<<>>), socialId |-> Str(<<>>), wristSize |-> Str(<<>>),
              addPurificationBag |-> Bool(FALSE), preferredColors |-> Arr(<<>>),
              totalPrice |-> Num(0), couponCode |-> Str(<<>>), discountAmount |-> Num(0)]))

colorsStr(record) ==
    LET colors == Member(DetailsOf(record), "preferredColors")
    IN  IF IsStandardProduct(record) THEN NotApplicable
        ELSE IF colors.t = "array" /\ Len(colors.v) > 0 THEN Str(Join(colors.v, <<", ">>))
        ELSE IF colors.t = "string" /\ JsTruthy(colors) THEN colors
        ELSE Str(<<>>)

finalBirthTime(record) ==
    IF IsStandardProduct(record) THEN NotApplicable
    ELSE IF JsTruthy(record.isTimeUnsure) THEN Str(<<"lucky hour / unknown">>)
    ELSE sanitize(record.birthTime)

\* array?.join(', ')
JoinOf(array) == IF array.t = "array" THEN Str(Join(array.v, <<", ">>)) ELSE Undefined

\* the payload object of syncToGoogleSheet
Payload(record, cleanBase64) ==
    LET analysis == record.analysis
        details  == DetailsOf(record)
    IN  [id |-> sanitize(record.id),
         name |-> sanitize(record.name),
         gender |-> JsOr(sanitize(record.gender), NotApplicable),
         birthDate |-> JsOr(sanitize(record.birthDate), NotApplicable),
         birthTime |-> finalBirthTime(record),
         wish |-> wishStr(record),
         zodiacSign |-> JsOr(sanitize(Member(analysis, "zodiacSign")), NotApplicable),
         element |-> JsOr(sanitize(Member(analysis, "element")), NotApplicable),
         luckyElement |-> JsOr(sanitize(Member(analysis, "luckyElement")), NotApplicable),
         bazi |-> baziStr(record),
         fiveElements |-> elementsStr(record),
         suggestedCrystals |->
             JsOr(sanitize(JoinOf(Member(analysis, "suggestedCrystals"))), record.name),
         reasoning |-> JsOr(sanitize(Member(analysis, "reasoning")),
                            Str(<<"standard purchase">>)),
         visualDescription |-> JsOr(sanitize(Member(analysis, "visualDescription")),
                                    Str(<<"standard">>)),
         colorPalette |-> JsOr(sanitize(JoinOf(Member(analysis, "colorPalette"))),
                               NotApplicable),
         imageBase64 |-> Str(cleanBase64),
         \* new Date(record.createdAt).toLocaleString('zh-TW')
         createdAt |-> IF record.createdAt.t = "number"
                         THEN Str(<<"date ", ToString(record.createdAt.v)>>)
                       ELSE Str(<<"Invalid Date">>),
         realName |-> sanitize(Member(details, "realName")),
         phone |-> sanitize(Member(details, "phone")),
         storeCode |-> sanitize(Member(details, "storeCode")),
         storeName |-> sanitize(Member(details, "storeName")),
         socialId |-> sanitize(Member(details, "socialId")),
         wristSize |-> IF JsTruthy(Member(details, "wristSize"))
                         THEN Str(TextOf(Member(details, "wristSize"))) ELSE Str(<<>>),
         addPurificationBag |-> IF JsTruthy(Member(details, "addPurificationBag"))
                                  THEN Str(<<"yes">>) ELSE Str(<<"no">>),
         preferredColors |-> colorsStr(record),
         totalPrice |-> IF JsTruthy(Member(details, "totalPrice"))
                          THEN Member(details, "totalPrice") ELSE Num(0),
         couponCode |-> sanitize(Member(details, "couponCode")),
         discountAmount |-> IF JsTruthy(Member(details, "discountAmount"))
                              THEN Member(details, "discountAmount") ELSE Num(0)]

\* JSON.stringify(data): a member whose value is undefined is left out
JsonBody(data) ==
    [k \in {key \in DOMAIN data : data[key].t # "undefined"} |-> data[k]]

\* ------------------------------------------------------------------------
\* googleSheetService: one call of syncToGoogleSheet, step by step.  A step
\* runs from one await to the next: it starts with the awaited operation
\* settling and ends with the next awaited operation started.  sendTestPing,
\* which has one await, is one step.
\* ------------------------------------------------------------------------

\* no call is in progress.  pending holds the awaited operations that have
\* been started and have not settled; wire holds the bodies handed to fetch
GatewayIdle ==
    [fn |-> "none", pc |-> "idle", record |-> None, scriptUrl |-> <<>>,
     cleanBase64 |-> <<>>, compressorCalls |-> 0, compressed |-> None, pending |-> {},
     wire |-> <<>>, errors |-> <<>>, log |-> <<>>, result |-> "none", returned |-> "none",
     threw |-> FALSE]

\* what fetch may do: resolve, or reject with one of these errors
FetchOutcomes ==
    { [threw |-> FALSE],
      [threw |-> TRUE, name |-> "TypeError", message |-> <<"blocked by ", "CORS", " policy">>],
      [threw |-> TRUE, name |-> "TypeError", message |-> <<"Failed to fetch">>],
      [threw |-> TRUE, name |-> "Error", message |-> <<"CORS">>] }

\* error.name === 'TypeError' && error.message.includes('CORS')
IsCorsError(error) ==
    error.name = "TypeError" /\ \E i \in 1..Len(error.message) : error.message[i] = "CORS"

\* sendRequest rethrowing every error, the cross-origin ones too
sendRequestRethrowing(outcome) ==
    [threw |-> outcome.threw,
     status |-> "sent",
     log |-> IF ~outcome.threw THEN <<"request sent">> ELSE <<"send error">>]

\* sendRequest(data) once its fetch has settled: the object returned, or
\* the error rethrown
sendRequest(outcome) ==
    [threw |-> outcome.threw /\ ~IsCorsError(outcome),
     status |-> IF ~outcome.threw THEN "sent" ELSE "cors_blocked",
     log |-> IF ~outcome.threw THEN <<"request sent">>
             ELSE IF IsCorsError(outcome) THEN <<"send error", "cors warning">>
             ELSE <<"send error">>]

\* SyncBegin with the compressor called and not awaited: the first
\* transmission is started while the compression is under way
SyncBeginNotAwaiting ==
    /\ gateway.fn = "sync" /\ gateway.pc = "called"
    /\ LET image == gateway.record.generatedImageUrl
       IN  gateway' =
             IF gateway.scriptUrl = <<>> THEN [gateway EXCEPT !.pc = "returned"]
             ELSE IF JsTruthy(image) /\ ~StartsWithHttp(image.v)
               THEN [gateway EXCEPT
                       !.pc = "send", !.compressorCalls = @ + 1,
                       !.pending = {"compress", "send"},
                       !.wire = Append(@, JsonBody(Payload(gateway.record, <<>>)))]
             ELSE [gateway EXCEPT
                     !.pc = "send", !.pending = {"send"},
                     !.wire = Append(@, JsonBody(Payload(gateway.record, <<>>)))]
    /\ UNCHANGED formVars

\* SyncBegin without the return on an empty script URL
SyncBeginWithoutUrlCheck ==
    /\ gateway.fn = "sync" /\ gateway.pc = "called"
    /\ LET image == gateway.record.generatedImageUrl
       IN  gateway' =
             IF JsTruthy(image) /\ ~StartsWithHttp(image.v)
               THEN [gateway EXCEPT !.pc = "compress", !.compressorCalls = @ + 1,
                                    !.pending = {"compress"}]
             ELSE [gateway EXCEPT
                     !.pc = "send", !.pending = {"send"},
                     !.wire = Append(@, JsonBody(Payload(gateway.record, <<>>)))]
    /\ UNCHANGED formVars

\* syncToGoogleSheet up to its first await: the early return; else the
\* compressor is called for an image that is not a remote URL; else the
\* payload is built with an empty image field and handed to fetch
SyncBegin ==
    /\ gateway.fn = "sync" /\ gateway.pc = "called"
    /\ LET image == gateway.record.generatedImageUrl
       IN  gateway' =
             IF gateway.scriptUrl = <<>> THEN [gateway EXCEPT !.pc = "returned"]
             ELSE IF JsTruthy(image) /\ ~StartsWithHttp(image.v)
               THEN [gateway EXCEPT !.pc = "compress", !.compressorCalls = @ + 1,
                                    !.pending = {"compress"}]
             ELSE [gateway EXCEPT
                     !.pc = "send", !.pending = {"send"},
                     !.wire = Append(@, JsonBody(Payload(gateway.record, <<>>)))]
    /\ UNCHANGED formVars

\* the compressor settles (the try/catch around it), the payload is built
\* and handed to fetch by the first sendRequest
SyncCompress ==
    /\ gateway.fn = "sync" /\ gateway.pc = "compress"
    /\ \E outcome \in CompressorOutcomes :
         LET clean == CleanBase64(gateway.record.generatedImageUrl.v, outcome)
         IN  gateway' = [gateway EXCEPT
                           !.pc = "send",
                           !.pending = (@ \ {"compress"}) \cup {"send"},
                           !.compressed = Some(outcome),
                           !.log = IF outcome.threw THEN Append(@, "compression failed") ELSE @,
                           !.cleanBase64 = clean,
                           !.wire = Append(@, JsonBody(Payload(gateway.record, clean)))]
    /\ UNCHANGED formVars

\* SyncSend retrying with the payload as it was
SyncSendRetryingSamePayload ==
    /\ gateway.fn = "sync" /\ gateway.pc = "send"
    /\ \E outcome \in FetchOutcomes :
         LET sent == sendRequest(outcome)
         IN  gateway' = [gateway EXCEPT
                           !.pending = IF sent.threw THEN (@ \ {"send"}) \cup {"retry"}
                                       ELSE @ \ {"send"},
                           !.errors = IF outcome.threw THEN Append(@, outcome) ELSE @,
                           !.pc = IF sent.threw THEN "retry" ELSE "returned",
                           !.log = @ \o sent.log
                                     \o (IF sent.threw THEN <<"sync failed, retrying without image">>
                                         ELSE <<"sync result">>),
                           !.result = IF sent.threw THEN @ ELSE sent.status,
                           !.wire = IF sent.threw
                                      THEN Append(@, JsonBody(Payload(gateway.record,
                                                                      gateway.cleanBase64)))
                                    ELSE @]
    /\ UNCHANGED formVars

\* the fetch of the first sendRequest settles; when sendRequest rethrows,
\* the catch of the outer try builds the payload without the image and hands
\* it to fetch
SyncSend ==
    /\ gateway.fn = "sync" /\ gateway.pc = "send"
    /\ \E outcome \in FetchOutcomes :
         LET sent == sendRequest(outcome)
             textOnlyPayload ==
               [Payload(gateway.record, gateway.cleanBase64) EXCEPT !.imageBase64 = Str(<<>>)]
         IN  gateway' = [gateway EXCEPT
                           !.pending = IF sent.threw THEN (@ \ {"send"}) \cup {"retry"}
                                       ELSE @ \ {"send"},
                           !.errors = IF outcome.threw THEN Append(@, outcome) ELSE @,
                           !.pc = IF sent.threw THEN "retry" ELSE "returned",
                           !.log = @ \o sent.log
                                     \o (IF sent.threw THEN <<"sync failed, retrying without image">>
                                         ELSE <<"sync result">>),
                           !.result = IF sent.threw THEN @ ELSE sent.status,
                           !.wire = IF sent.threw THEN Append(@, JsonBody(textOnlyPayload))
                                    ELSE @]
    /\ UNCHANGED formVars

\* SyncRetry with the second failure left uncaught
SyncRetryUncaught ==
    /\ gateway.fn = "sync" /\ gateway.pc = "retry"
    /\ \E outcome \in FetchOutcomes :
         LET sent == sendRequest(outcome)
         IN  gateway' = [gateway EXCEPT
                           !.pending = @ \ {"retry"},
                           !.errors = IF outcome.threw THEN Append(@, outcome) ELSE @,
                           !.pc = IF sent.threw THEN "threw" ELSE "returned",
                           !.log = @ \o sent.log
                                     \o (IF sent.threw THEN <<>> ELSE <<"retry completed">>),
                           !.result = IF sent.threw THEN @ ELSE "retry_completed",
                           !.threw = sent.threw]
    /\ UNCHANGED formVars

\* the fetch of the retry settles, inside the inner try: a second failure is
\* logged with the request to check the sheet by hand
SyncRetry ==
    /\ gateway.fn = "sync" /\ gateway.pc = "retry"
    /\ \E outcome \in FetchOutcomes :
         LET sent == sendRequest(outcome)
         IN  gateway' = [gateway EXCEPT
                           !.pending = @ \ {"retry"},
                           !.errors = IF outcome.threw THEN Append(@, outcome) ELSE @,
                           !.pc = "returned",
                           !.log = @ \o sent.log
                                     \o (IF sent.threw
                                           THEN <<"both attempts failed", "check the sheet by hand">>
                                         ELSE <<"retry completed">>),
                           !.result = IF sent.threw THEN @ ELSE "retry_completed"]
    /\ UNCHANGED formVars

\* the payload of sendTestPing, with Date.now() in the id
PingPayload ==
    [id |-> Str(<<"TEST-", "now">>), name |-> Str(<<"system test">>),
     gender |-> NotApplicable, birthDate |-> Str(<<"2024-01-01">>),
     birthTime |-> Str(<<"12:00">>), wish |-> Str(<<"test">>), element |-> Str(<<"test">>),
     luckyElement |-> Str(<<"test">>), bazi |-> Str(<<"test">>),
     suggestedCrystals |-> Str(<<"test">>), reasoning |-> Str(<<"test">>),
     visualDescription |-> Str(<<"test">>), colorPalette |-> Str(<<"test">>),
     createdAt |-> Str(<<"date ", "now">>), realName |-> Str(<<"test">>),
     phone |-> Str(<<"0900-000-000">>), storeCode |-> Str(<<"000">>),
     storeName |-> Str(<<"test store">>), socialId |-> Str(<<"@test">>),
     wristSize |-> Str(<<"15">>), addPurificationBag |-> Str(<<"no">>),
     preferredColors |-> Str(<<"test">>), totalPrice |-> Num(0),
     couponCode |-> Str(<<"TEST2026">>), discountAmount |-> Num(100)]

\* sendTestPing with the catch block returning 'ok' as well
SendTestPingAlwaysOk ==
    /\ gateway.fn = "ping" /\ gateway.pc = "called"
    /\ \E outcome \in FetchOutcomes :
         gateway' = [gateway EXCEPT
                       !.wire = Append(@, JsonBody(PingPayload)),
                       !.errors = IF outcome.threw THEN Append(@, outcome) ELSE @,
                       !.pc = "returned",
                       !.log = Append(@, IF outcome.threw THEN "test failed" ELSE "test request sent"),
                       !.returned = "ok"]
    /\ UNCHANGED formVars

\* sendTestPing: one fetch inside a try whose catch returns 'unknown'
SendTestPing ==
    /\ gateway.fn = "ping" /\ gateway.pc = "called"
    /\ \E outcome \in FetchOutcomes :
         gateway' = [gateway EXCEPT
                       !.wire = Append(@, JsonBody(PingPayload)),
                       !.errors = IF outcome.threw THEN Append(@, outcome) ELSE @,
                       !.pc = "returned",
                       !.log = Append(@, IF outcome.threw THEN "test failed" ELSE "test request sent"),
                       !.returned = IF outcome.threw THEN "unknown" ELSE "ok"]
    /\ UNCHANGED formVars

\* a call of the gateway with one of the records and any script URL, or a
\* call of the probe
InitSyncOver(records) ==
    /\ pricingStrategy = StandardStrategy
    /\ COUPON_CONFIG = CouponSmall
    /\ storage = Absent
    /\ mounted = FALSE
    /\ hasRestoredData = FALSE
    /\ restoreTimer = FALSE
    /\ SetFormNow(InitialForm(EmptyObject, CustomStrategy))
    /\ totalPrice = 0
    /\ event = Event("init")
    /\ steps = 0
    /\ \E url \in { <<>>, <<"https://script/exec">> } :
         \/ \E record \in records :
              gateway = [GatewayIdle EXCEPT !.fn = "sync", !.pc = "called",
                                            !.record = record, !.scriptUrl = url]
         \/ gateway = [GatewayIdle EXCEPT !.fn = "ping", !.pc = "called",
                                          !.scriptUrl = url]

InitSync == InitSyncOver(Records)

NextSync ==
    \/ SyncBegin
    \/ SyncCompress
    \/ SyncSend
    \/ SyncRetry
    \/ SendTestPing

SpecSync == InitSync /\ [][NextSync]_vars

\* the records that differ in what decides the course of a call: the image
\* reference
FlowRecords ==
    { r \in Records :
        /\ r.id = Null /\ r.name = Undefined /\ r.gender = Undefined
        /\ r.wish = Undefined /\ r.analysis = Undefined
        /\ r.shippingDetails \in {Undefined, FullDetails}
        /\ r.isStandardProduct = Undefined }

InitSyncFlow == InitSyncOver(FlowRecords)

\* the course of a call, with every awaited promise (compressor, fetch)
\* settling
SpecSyncFlow == InitSyncFlow /\ [][NextSync]_vars /\ WF_vars(NextSync)

\* ------------------------------------------------------------------------
\* Specification
\* ------------------------------------------------------------------------

Init ==
    /\ \E c \in Configs : pricingStrategy = c[1] /\ COUPON_CONFIG = c[2]
    /\ storage \in {Absent, Corrupt, JsonStringify(SavedDraft)}
    /\ mounted = FALSE
    /\ hasRestoredData = FALSE
    /\ restoreTimer = FALSE
    /\ realName = <<>>
    /\ phone = <<>>
    /\ storeCode = <<>>
    /\ storeName = <<>>
    /\ socialId = <<>>
    /\ wristSize = <<>>
    /\ isCustomSize = FALSE
    /\ addPurificationBag = FALSE
    /\ preferredColors = <<>>
    /\ couponInput = <<>>
    /\ appliedCoupon = NoCoupon
    /\ couponError = "none"
    /\ agreed = FALSE
    /\ errors = <<>>
    /\ totalPrice = 0
    /\ event = Event("init")
    /\ steps = 0
    /\ gateway = GatewayIdle

\* one more event of a behaviour of at most MaxEvents events
Counted(A) == steps < MaxEvents /\ A /\ steps' = steps + 1 /\ UNCHANGED gateway

Next ==
    \/ Counted(Mount)
    \/ Counted(Unmount)
    \/ Counted(RestoredTimeout)
    \/ Counted(SetRealName(FieldInputs.realName))
    \/ Counted(PhoneChange(FieldInputs.phone))
    \/ Counted(StoreCodeChange(FieldInputs.storeCode))
    \/ Counted(SetStoreName(FieldInputs.storeName))
    \/ Counted(SetSocialId(FieldInputs.socialId))
    \/ Counted(WristSizeChange(WristInputs))
    \/ Counted(ToggleCustomSize)
    \/ Counted(SetAddPurificationBag)
    \/ Counted(ToggleColor)
    \/ Counted(SetAgreed)
    \/ Counted(SetCouponInput(CouponInputs))
    \/ Counted(ApplyCoupon)
    \/ Counted(RemoveCoupon)
    \/ Counted(SubmitRejected)
    \/ Counted(SubmitAccepted)

\* the order form: every event, in behaviours of at most MaxEvents events
Spec == Init /\ [][Next]_vars

\* ------------------------------------------------------------------------
\* The pricing inputs alone: every size text, the toggle, the bag and the
\* coupon, under every configuration, in behaviours of any length
\* ------------------------------------------------------------------------

Uncounted(A) == A /\ UNCHANGED <<steps, gateway>>

InitPricingConfigs ==
    \E c \in PricingConfigs :
      /\ pricingStrategy = c[1]
      /\ COUPON_CONFIG = c[2]
      /\ storage \in {Absent, JsonStringify(SavedDraft)}
      /\ mounted = FALSE
      /\ hasRestoredData = FALSE
      /\ restoreTimer = FALSE
      /\ SetFormNow(InitialForm(EmptyObject, CustomStrategy))
      /\ totalPrice = 0
      /\ event = Event("init")
      /\ steps = 0
      /\ gateway = GatewayIdle

NextPricing ==
    \/ Uncounted(Mount)
    \/ Uncounted(Unmount)
    \/ Uncounted(Reload)
    \* further size texts: zero, a lone dot, below the threshold, a trailing
    \* dot, the validation ceiling
    \/ Uncounted(WristSizeChange(
           WristInputs \cup { <<"0">>, <<".">>, <<"9">>, <<"1", "4", ".">>, <<"3", "0">> }))
    \/ Uncounted(ToggleCustomSize)
    \/ Uncounted(SetAddPurificationBag)
    \/ Uncounted(SetAgreed)
    \/ Uncounted(SetCouponInput(CouponInputs))
    \/ Uncounted(ApplyCoupon)
    \/ Uncounted(RemoveCoupon)
    \/ Uncounted(SubmitRejected)
    \/ Uncounted(SubmitAccepted)

SpecPricing == InitPricingConfigs /\ [][NextPricing]_vars

\* ------------------------------------------------------------------------
\* The validation rules alone: a mounted form holding any combination of
\* field texts the handlers can leave, and a submit attempt on it
\* ------------------------------------------------------------------------

ValidateInputs ==
    [realName  |-> { <<>>, <<" ">>, <<" ", "A">> },
     phone     |->
       { <<>>, CanonPhone, RawPhone, <<"0", "9", "1", "2">>,
         <<"0", "8", "1", "2", "-", "3", "4", "5", "-", "6", "7", "8">>,
         <<"0", "9", "1", "2", "3", "4", "5", "6", "7", "8", "9">> },
     storeCode |-> { <<>>, <<"1", "2", "3">>, <<"1", "2", "3", "4", "5", "6">> },
     storeName |-> { <<>>, <<"X", "men", "shi">> },
     socialId  |-> { <<>>, <<"@", "x">> },
     wristSize |->
       { <<>>, <<".">>, <<"0">>, <<"1", "4">>, <<"1", "5", ".", "5">>, <<"3", "0">>,
         <<"3", "1">>, <<"1", "4", ".">> }]

InitValidate ==
    \E c \in { <<StandardStrategy, CouponSmall>>, <<CustomStrategy, CouponLarge>> },
       n \in ValidateInputs.realName, p \in ValidateInputs.phone,
       sc \in ValidateInputs.storeCode, sn \in ValidateInputs.storeName,
       so \in ValidateInputs.socialId, w \in ValidateInputs.wristSize,
       a \in BOOLEAN :
      LET f == [InitialForm(EmptyObject, c[1]) EXCEPT
                  !.realName = n, !.phone = p, !.storeCode = sc, !.storeName = sn,
                  !.socialId = so, !.wristSize = w, !.agreed = a,
                  !.isCustomSize = (c[1].type = "standard" /\ w # BaselineSize)]
      IN  /\ pricingStrategy = c[1]
          /\ COUPON_CONFIG = c[2]
          /\ mounted = TRUE
          /\ SetFormNow(f)
          /\ storage = JsonStringify(DraftOf(f))
          /\ hasRestoredData = FALSE
          /\ restoreTimer = FALSE
          /\ totalPrice = TotalPrice(c[1], f.isCustomSize, f.wristSize,
                                     f.addPurificationBag, f.appliedCoupon)
          /\ event = Event("other")
          /\ steps = 0
          /\ gateway = GatewayIdle

NextValidate ==
    \/ Uncounted(SubmitRejected)
    \/ Uncounted(SubmitAccepted)

SpecValidate == InitValidate /\ [][NextValidate]_vars

\* ------------------------------------------------------------------------
\* handleApplyCoupon alone: the handler called on any input text under an
\* enabled or a disabled coupon system (the switch is external to the form,
\* so the handler is exercised whether or not the box is on screen)
\* ------------------------------------------------------------------------

CouponCallInputs ==
    { <<>>, <<" ">>, <<"s", "a", "v", "e">>, <<"S", "A", "V", "E">>,
      <<" ", "s", "a", "v", "e", " ">>, <<"S", "a", "v", "e">>, <<"b", "a", "d">> }

CallHandleApplyCoupon ==
    /\ mounted
    /\ Render(handleApplyCoupon(Form, COUPON_CONFIG), storage, FALSE, Event("applyCoupon"))

InitCoupon ==
    \E st \in {StandardStrategy, CustomStrategy},
       cfg \in {CouponSmall, CouponLarge, CouponOff},
       input \in CouponCallInputs,
       shown \in BOOLEAN :
      LET f == [InitialForm(EmptyObject, st) EXCEPT
                  !.couponInput = input,
                  !.couponError = IF ~shown THEN "none"
                                  ELSE IF cfg.isEnabled THEN "invalid" ELSE "disabled"]
      IN  /\ pricingStrategy = st
          /\ COUPON_CONFIG = cfg
          /\ mounted = TRUE
          /\ SetFormNow(f)
          /\ storage = JsonStringify(DraftOf(f))
          /\ hasRestoredData = FALSE
          /\ restoreTimer = FALSE
          /\ totalPrice = TotalPrice(st, f.isCustomSize, f.wristSize,
                                     f.addPurificationBag, f.appliedCoupon)
          /\ event = Event("other")
          /\ steps = 0
          /\ gateway = GatewayIdle

NextCoupon ==
    \/ Uncounted(CallHandleApplyCoupon)
    \/ Uncounted(SetCouponInput(CouponCallInputs))
    \/ Uncounted(RemoveCoupon)

SpecCoupon == InitCoupon /\ [][NextCoupon]_vars

\* ------------------------------------------------------------------------
\* The phone and store-code inputs alone: a mounted form and any sequence
\* of typed or pasted texts
\* ------------------------------------------------------------------------

EditInputs ==
    [phone |->
       { <<>>, <<"a", "b">>, <<"0", "9", "1", "2">>, <<"0", "9", "1", "2", "3">>,
         <<"0", "9", "1", "2", "-", "3", "4", "5">>,
         <<"0", "9", "1", "2", "-", "3", "4", "5", "6">>, RawPhone,
         <<"0", "9", "1", "2", "-", "3", "4", "5", "-", "6", "7", "8", "9", "x">> },
     storeCode |->
       FieldInputs.storeCode \cup
       { <<"1", "2", "3", "4", "5", "6", "7">>,
         <<"7", "-", "1", "1", " ", "X", "men", "shi", " ", "1", "2", "3", "4", "5">>,
         <<"n", "o", " ", "d", "i", "g", "i", "t", "s">>,
         <<"(", "1", "2", "3", "4", "5", "6", ")", " ", "A">>,
         <<"A", "B", " ", "6", "5", "4", "3", "2", "1", " ", "x">> },
     storeName |-> { <<>>, <<"Y", "men", "shi">> }]

InitEdit ==
    \E st \in {StandardStrategy, CustomStrategy} :
      LET f == InitialForm(EmptyObject, st)
      IN  /\ pricingStrategy = st
          /\ COUPON_CONFIG = CouponOff
          /\ mounted = TRUE
          /\ SetFormNow(f)
          /\ storage = JsonStringify(DraftOf(f))
          /\ hasRestoredData = FALSE
          /\ restoreTimer = FALSE
          /\ totalPrice = TotalPrice(st, f.isCustomSize, f.wristSize,
                                     f.addPurificationBag, f.appliedCoupon)
          /\ event = Event("mount")
          /\ steps = 0
          /\ gateway = GatewayIdle

NextEdit ==
    \/ Uncounted(PhoneChange(EditInputs.phone))
    \/ Uncounted(StoreCodeChange(EditInputs.storeCode))
    \/ Uncounted(SetStoreName(EditInputs.storeName))

SpecEdit == InitEdit /\ [][NextEdit]_vars

\* ------------------------------------------------------------------------
\* Claims
\* ------------------------------------------------------------------------

C1_Sum ==
    pricingStrategy.basePrice + pricingStrategy.shippingCost
      + (IF isSurchargeApplicable(pricingStrategy, isCustomSize, wristSize)
         THEN pricingStrategy.surcharge ELSE 0)
      + (IF addPurificationBag THEN 200 ELSE 0)

C1_Discount == IF appliedCoupon.applied THEN appliedCoupon.amount ELSE 0

\* C1: in every state of a mounted form the total shown is the undiscounted
\* sum (base + shipping + surcharge when it applies + 200 for the bag) less
\* the applied coupon's amount, and 0 when the amount is at least the sum;
\* it is never negative.
C1_TotalIsClampedSum ==
    mounted =>
      /\ totalPrice >= 0
      /\ C1_Discount >= C1_Sum => totalPrice = 0
      /\ C1_Discount < C1_Sum => totalPrice = C1_Sum - C1_Discount

\* a coupon larger than the sum of base, shipping, surcharge and bag is applied
C1_Witness ==
    /\ mounted
    /\ appliedCoupon.applied
    /\ addPurificationBag
    /\ isSurchargeApplicable(pricingStrategy, isCustomSize, wristSize)
    /\ C1_Discount > C1_Sum
    /\ totalPrice = 0

\* The seven rules, as the specification words them, on the current fields.
RuleNameFails      == Trim(realName) = <<>>
RulePhoneFails     ==
    LET d == DigitsOf(phone)
    IN  ~(Len(d) = 10 /\ SubSeq(d, 1, 2) = <<"0", "9">>)
RuleStoreCodeFails == ~(Len(storeCode) = 6 /\ DigitsOf(storeCode) = storeCode)
RuleStoreNameFails == Trim(storeName) = <<>>
RuleSocialFails    == Trim(socialId) = <<>>
RuleWristFails     ==
    LET v == ParseFloat(wristSize)
    IN  ~(~v.nan /\ v.num > 0 /\ v.num <= 30 * v.den)
RuleAgreementFails == agreed # TRUE

CanonicalOrder ==
    <<"realName", "phone", "storeCode", "storeName", "socialId", "wristSize", "agreement">>

RuleFails(field) ==
    CASE field = "realName"  -> RuleNameFails
      [] field = "phone"     -> RulePhoneFails
      [] field = "storeCode" -> RuleStoreCodeFails
      [] field = "storeName" -> RuleStoreNameFails
      [] field = "socialId"  -> RuleSocialFails
      [] field = "wristSize" -> RuleWristFails
      [] field = "agreement" -> RuleAgreementFails

AnyRuleFails == \E i \in 1..7 : RuleFails(CanonicalOrder[i])

Contains(seq, x) == \E i \in 1..Len(seq) : seq[i] = x

SubmitStep == event'.op = "submit"

\* C2: a record reaches onSubmit only in a submit attempt on fields that pass
\* every rule; a submit attempt on fields with a failing rule hands out no
\* record, calls removeItem not at all and leaves a present entry present.
C2_RecordOnlyWhenValid ==
    [][ /\ event'.emitted.def => (SubmitStep /\ ~AnyRuleFails)
        /\ (SubmitStep /\ AnyRuleFails) =>
             /\ ~event'.emitted.def
             /\ event'.removed = 0
             /\ storage # Absent => storage' # Absent ]_vars

\* a record has been handed to onSubmit by a form that stays mounted
C2_Witness == mounted /\ event.op = "submit" /\ event.emitted.def

\* a submit attempt was rejected while the storage entry was present
C2_WitnessRejected ==
    mounted /\ event.op = "submit" /\ event.newErrors # <<>> /\ storage # Absent

AcceptedStep == SubmitStep /\ event'.emitted.def

\* the phone text is 4 digits, dash, 3 digits, dash, 3 digits, starting 09
IsCanonicalPhone(p) ==
    /\ Len(p) = 12
    /\ p[1] = "0" /\ p[2] = "9"
    /\ p[5] = "-" /\ p[9] = "-"
    /\ \A i \in (1..12) \ {5, 9} : IsDigit(p[i])

\* C3: the record of an accepted submit carries the phone in canonical dashed
\* form built from the digits of the phone field, the store code, wrist size,
\* bag flag and colours as held, the applied coupon's code and amount (both
\* absent without a coupon), and the total of the pricing formula.
C3_RecordContents ==
    [][ AcceptedStep =>
          LET r == event'.emitted.val
          IN  /\ IsCanonicalPhone(r.phone)
              /\ DigitsOf(r.phone) = DigitsOf(phone)
              /\ r.storeCode = storeCode
              /\ r.wristSize = wristSize
              /\ r.addPurificationBag = addPurificationBag
              /\ r.preferredColors = preferredColors
              /\ appliedCoupon.applied =>
                   /\ r.couponCode = Some(appliedCoupon.code)
                   /\ r.discountAmount = Some(appliedCoupon.amount)
              /\ ~appliedCoupon.applied =>
                   /\ r.couponCode = None
                   /\ r.discountAmount = None
              /\ r.totalPrice = (IF C1_Discount >= C1_Sum THEN 0
                                 ELSE C1_Sum - C1_Discount) ]_vars

\* an accepted submit of a phone held without dashes, with a coupon applied
C3_Witness ==
    /\ mounted
    /\ event.op = "submit"
    /\ event.emitted.def
    /\ event.emitted.val.couponCode.def
    /\ event.emitted.val.phone = CanonPhone

\* C4: the error mapping of a submit attempt has an entry for a field exactly
\* when that field's rule fails, each of the seven rules judged on its own,
\* and the attempt never throws.
C4_ErrorsIffRuleFails ==
    [][ SubmitStep =>
          /\ ~event'.threw
          /\ \A i \in 1..7 :
               Contains(event'.newErrors, CanonicalOrder[i]) <=> RuleFails(CanonicalOrder[i])
          /\ \A j \in 1..Len(event'.newErrors) :
               Contains(CanonicalOrder, event'.newErrors[j]) ]_vars

\* a submit attempt found the wrist size above the ceiling and the agreement
\* unticked while the name was filled in
C4_Witness ==
    /\ event.op = "submit"
    /\ Contains(event.newErrors, "wristSize")
    /\ Contains(event.newErrors, "agreement")
    /\ ~Contains(event.newErrors, "realName")
    /\ wristSize = <<"3", "1">>

EarliestFailing ==
    CanonicalOrder[CHOOSE i \in 1..7 :
                     /\ RuleFails(CanonicalOrder[i])
                     /\ \A j \in 1..(i - 1) : ~RuleFails(CanonicalOrder[j])]

C6_AbsentAfterAcceptedSubmit ==
    (event.op = "submit" /\ event.emitted.def) => storage = Absent

\* the draft the mounted form would save
CurrentDraft == JsonStringify(DraftOf(Form))

\* C7: the entry goes from present to absent only in an accepted submit,
\* removeItem is called exactly once in an accepted submit and in no other
\* step, and up to an accepted submit a present entry of a mounted form is
\* the draft of its current fields, which is what a reload then finds.
C7_RemovedOnlyByAcceptedSubmit ==
    [][ /\ (storage # Absent /\ storage' = Absent) => AcceptedStep
        /\ AcceptedStep => event'.removed = 1
        /\ ~AcceptedStep => event'.removed = 0
        /\ (mounted /\ storage # Absent) => storage = CurrentDraft
        /\ (event'.op = "mount" /\ storage # Absent) => storage' # Absent ]_vars

\* an accepted submit has removed the entry
C7_Witness == event.op = "submit" /\ event.removed = 1 /\ storage = Absent

\* C8: every step of a mounted form that changes one of the eight draft
\* fields leaves the storage entry equal to the draft of the new values.
C8_WriteThrough ==
    [][ (mounted /\ mounted' /\ DraftOf(Form)' # DraftOf(Form)) =>
          storage' = CurrentDraft' ]_vars

\* the store name was edited last and the entry holds it
C8_Witness ==
    /\ mounted
    /\ event.op = "other"
    /\ storeName = <<" ">>
    /\ storage = CurrentDraft
    /\ storage.members.storeName = <<" ">>

\* C9: a mount that reads a saved draft starts with every draft field equal
\* to the saved value of that field, under both policy variants.
C9_RoundTrip ==
    (mounted /\ event.op = "mount" /\ event.initialDraft.def
       /\ DOMAIN event.initialDraft.val = DraftKeys) =>
      LET d == event.initialDraft.val
      IN  /\ realName = d.realName
          /\ phone = d.phone
          /\ storeCode = d.storeCode
          /\ storeName = d.storeName
          /\ socialId = d.socialId
          /\ wristSize = d.wristSize
          /\ addPurificationBag = d.addPurificationBag
          /\ preferredColors = d.preferredColors

\* C10: a mount that finds the entry absent or unparsable does not throw and
\* starts from the empty draft: the five text fields empty, the bag flag
\* false, no colours.
C10_LoadFailsSoft ==
    [][ (event'.op = "mount" /\ storage \in {Absent, Corrupt}) =>
          /\ ~event'.threw
          /\ mounted'
          /\ event'.initialDraft = Some(EmptyObject)
          /\ realName' = <<>>
          /\ phone' = <<>>
          /\ storeCode' = <<>>
          /\ storeName' = <<>>
          /\ socialId' = <<>>
          /\ addPurificationBag' = FALSE
          /\ preferredColors' = <<>> ]_vars

\* a mount has caught and logged the failure to parse the entry
C10_Witness ==
    /\ mounted
    /\ event.op = "mount"
    /\ event.logged
    /\ ~event.threw
    /\ realName = <<>>

\* the total when the surcharge is charged exactly under the condition given
TotalWithSurchargeIff(charged) ==
    LET sum == pricingStrategy.basePrice + pricingStrategy.shippingCost
                 + (IF charged THEN pricingStrategy.surcharge ELSE 0)
                 + (IF addPurificationBag THEN 200 ELSE 0)
    IN  IF C1_Discount >= sum THEN 0 ELSE sum - C1_Discount

SizeAtLeastThreshold ==
    LET v == ParseFloat(wristSize)
    IN  ~v.nan /\ v.num >= pricingStrategy.sizeThreshold * v.den

\* C12: under the custom variant the surcharge is in the total exactly when
\* the size text reads as a number at or above sizeThreshold; an empty or
\* non-numeric text never charges it, a size equal to the threshold does.
C12_CustomSurchargeIffAtLeastThreshold ==
    (mounted /\ pricingStrategy.type = "custom") =>
      totalPrice = TotalWithSurchargeIff(SizeAtLeastThreshold)

\* custom variant, a size equal to the threshold, no coupon: the surcharge
\* is charged
C12_Witness ==
    /\ mounted
    /\ pricingStrategy.type = "custom"
    /\ wristSize = <<"1", "4">>
    /\ ~appliedCoupon.applied
    /\ ~addPurificationBag
    /\ totalPrice = pricingStrategy.basePrice + pricingStrategy.shippingCost
                      + pricingStrategy.surcharge

ApplyStep == event'.op = "applyCoupon"

\* the two texts are equal up to the case of their letters
EqualIgnoringCase(a, b) ==
    /\ Len(a) = Len(b)
    /\ \A i \in 1..Len(a) : UpperOf(a[i]) = UpperOf(b[i])

ConfiguredCoupon ==
    [applied |-> TRUE, code |-> COUPON_CONFIG.code, amount |-> COUPON_CONFIG.discountAmount]

\* C13 as stated: applying a code fails with the coupons-disabled error and
\* applies nothing when the system is disabled, else fails with the
\* invalid-coupon error when the code differs from the configured code other
\* than in letter case, else applies the configured coupon and clears the
\* coupon error.
C13_ApplyOutcomes ==
    [][ ApplyStep =>
          IF ~COUPON_CONFIG.isEnabled
            THEN couponError' = "disabled" /\ appliedCoupon' = appliedCoupon
          ELSE IF ~EqualIgnoringCase(couponInput, COUPON_CONFIG.code)
            THEN couponError' = "invalid"
          ELSE appliedCoupon' = ConfiguredCoupon /\ couponError' = "none" ]_vars

\* C13 amended: the outcomes above are those of a code that is not blank,
\* compared after trimming; a blank code clears the coupon error and
\* changes nothing else, whether the system is enabled or not.
C13_ApplyOutcomesOfTrimmedCode ==
    [][ ApplyStep =>
          LET code == Trim(couponInput)
          IN  IF code = <<>>
                THEN couponError' = "none" /\ appliedCoupon' = appliedCoupon
              ELSE IF ~COUPON_CONFIG.isEnabled
                THEN couponError' = "disabled" /\ appliedCoupon' = appliedCoupon
              ELSE IF ~EqualIgnoringCase(code, COUPON_CONFIG.code)
                THEN couponError' = "invalid" /\ appliedCoupon' = NoCoupon
              ELSE appliedCoupon' = ConfiguredCoupon /\ couponError' = "none" ]_vars

\* a code typed in lower case has been applied and has cleared the error
C13_Witness ==
    /\ event.op = "applyCoupon"
    /\ couponInput = <<"s", "a", "v", "e">>
    /\ appliedCoupon = ConfiguredCoupon
    /\ couponError = "none"

SyncCall == gateway.fn = "sync"

\* the call has reached its end: it returned or it threw to its caller
SyncEnded == gateway.pc \in {"returned", "threw"}

\* C14: a call of the sync gateway never throws to its caller and goes on
\* until it returns, whatever the compressor, the first transmission and the
\* retry do; when both transmissions throw, it ends with a logged warning.
C14_SyncNeverThrows ==
    /\ [](SyncCall =>
            /\ ~gateway.threw
            /\ gateway.pc # "threw"
            /\ (SyncEnded /\ Len(gateway.errors) = 2) =>
                 \/ Contains(gateway.log, "both attempts failed")
                 \/ Contains(gateway.log, "cors warning"))
    /\ <>(gateway.pc = "returned")

\* both transmissions threw after the compressor had thrown, and the call
\* returned with the warning
C14_Witness ==
    /\ SyncCall
    /\ gateway.pc = "returned"
    /\ gateway.compressed.def
    /\ gateway.compressed.val.threw
    /\ Len(gateway.errors) = 2
    /\ ~IsCorsError(gateway.errors[2])
    /\ Contains(gateway.log, "both attempts failed")

\* C15: a sync call makes at most two transmissions; a second one is made
\* only after the first has thrown, and its payload is the first payload with
\* the image field empty; when the first transmission does not throw, there
\* is no second one and the outcome is 'sent'.
C15_AtMostOneRetry ==
    SyncCall =>
      /\ Len(gateway.wire) <= 2
      /\ Len(gateway.wire) = 2 =>
           /\ gateway.errors # <<>>
           /\ Contains(gateway.log, "sync failed, retrying without image")
           /\ gateway.wire[2] = [gateway.wire[1] EXCEPT !.imageBase64 = Str(<<>>)]
      /\ (gateway.pc = "returned" /\ Len(gateway.wire) >= 1 /\ gateway.errors = <<>>) =>
           /\ Len(gateway.wire) = 1
           /\ gateway.result = "sent"

\* a retry has been transmitted for a first payload that carried an image
C15_Witness ==
    /\ SyncCall
    /\ gateway.pc = "returned"
    /\ Len(gateway.wire) = 2
    /\ gateway.wire[1].imageBase64 # Str(<<>>)
    /\ gateway.wire[2].imageBase64 = Str(<<>>)

\* the first transmission threw an error identified as a cross-origin
\* rejection, and the call has ended
FirstThrewCors ==
    /\ SyncCall
    /\ SyncEnded
    /\ gateway.errors # <<>>
    /\ IsCorsError(gateway.errors[1])

\* the record's image reference is encoded data, not a remote URL
CarriedImageData ==
    /\ JsTruthy(gateway.record.generatedImageUrl)
    /\ ~StartsWithHttp(gateway.record.generatedImageUrl.v)

UsablePart(text) == IF IncludesMarker(text) THEN AfterMarker(text) ELSE <<>>

\* the image field C17 asks for: nothing for a missing reference or a remote
\* URL; else the compressed image when usable, else the original when
\* usable, else nothing
ExpectedImageField ==
    LET image == gateway.record.generatedImageUrl
    IN  IF ~JsTruthy(image) \/ StartsWithHttp(image.v) THEN <<>>
        ELSE IF /\ gateway.compressed.def
                /\ ~gateway.compressed.val.threw
                /\ UsablePart(gateway.compressed.val.value) # <<>>
          THEN UsablePart(gateway.compressed.val.value)
        ELSE UsablePart(image.v)

\* C17: the image field of the first payload is empty for a remote URL,
\* without a call of the compressor; for encoded data it is the compressed
\* image if usable, else the original if usable, else empty; and the first
\* transmission is made in every case.
C17_ImageField ==
    (SyncCall /\ gateway.scriptUrl # <<>>) =>
      /\ (JsTruthy(gateway.record.generatedImageUrl)
            /\ StartsWithHttp(gateway.record.generatedImageUrl.v)) =>
           gateway.compressorCalls = 0
      /\ gateway.wire # <<>> => gateway.wire[1].imageBase64 = Str(ExpectedImageField)
      /\ SyncEnded => gateway.wire # <<>>

PingCall == gateway.fn = "ping"

\* C18: the probe makes one transmission of a record whose id starts with
\* 'TEST-', returns 'ok' exactly when that transmission does not throw and
\* 'unknown' when it throws, and never throws or returns another status.
C18_PingOkOrUnknown ==
    PingCall =>
      /\ ~gateway.threw
      /\ gateway.pc \in {"called", "returned"}
      /\ gateway.pc = "called" => (gateway.wire = <<>> /\ gateway.returned = "none")
      /\ gateway.pc = "returned" =>
           /\ Len(gateway.wire) = 1
           /\ Head(gateway.wire[1].id.v) = "TEST-"
           /\ gateway.returned \in {"ok", "unknown"}
           /\ gateway.returned = "ok" <=> gateway.errors = <<>>

\* the probe's transmission threw and the probe returned 'unknown'
C18_Witness ==
    /\ PingCall
    /\ gateway.pc = "returned"
    /\ gateway.errors # <<>>
    /\ gateway.returned = "unknown"

\* the fields of the payload
PayloadKeys ==
    {"id", "name", "gender", "birthDate", "birthTime", "wish", "zodiacSign", "element",
     "luckyElement", "bazi", "fiveElements", "suggestedCrystals", "reasoning",
     "visualDescription", "colorPalette", "imageBase64", "createdAt", "realName",
     "phone", "storeCode", "storeName", "socialId", "wristSize", "addPurificationBag",
     "preferredColors", "totalPrice", "couponCode", "discountAmount"}

\* C19: every payload the sync gateway transmits has each of its fields
\* present and holding a string or a number, whichever source values the
\* record lacks.
C19_NoMissingFieldOnWire ==
    SyncCall =>
      \A i \in 1..Len(gateway.wire) :
        /\ DOMAIN gateway.wire[i] = PayloadKeys
        /\ \A k \in DOMAIN gateway.wire[i] : gateway.wire[i][k].t \in {"string", "number"}

\* the draft read at mount holds a value other than a field's default
DraftNonEmpty(d) ==
    /\ DOMAIN d = DraftKeys
    /\ \/ d.realName # <<>>
       \/ d.phone # <<>>
       \/ d.storeCode # <<>>
       \/ d.storeName # <<>>
       \/ d.socialId # <<>>
       \/ (d.wristSize # <<>> /\ ~(isStandard /\ d.wristSize = <<"1", "4">>))
       \/ d.addPurificationBag
       \/ d.preferredColors # <<>>

\* C20: a mount that restores a non-empty draft raises the 'restored'
\* signal, and a mount on an empty or absent draft does not.
C20_RestoredSignalRaised ==
    (mounted /\ event.op = "mount" /\ event.initialDraft.def) =>
      (hasRestoredData <=> DraftNonEmpty(event.initialDraft.val))

\* C21: a submit attempt, accepted or rejected, leaves the live phone text as
\* the user typed it and leaves the phone of the stored draft as it was; the
\* dashed form goes to the finalized record only.
C21_SubmitKeepsLivePhone ==
    [][(SubmitStep /\ mounted') =>
         /\ phone' = phone
         /\ (storage.kind = "text" /\ storage'.kind = "text") =>
              storage'.members.phone = storage.members.phone]_vars

\* C22: in the state a rejected submit attempt leaves, the error mapping has
\* an entry for exactly the fields whose rule fails on the current values.
C22_ErrorsAreFullValidation ==
    (mounted /\ event.op = "submit" /\ ~event.emitted.def) =>
      \A i \in 1..7 : Contains(errors, CanonicalOrder[i]) <=> RuleFails(CanonicalOrder[i])

RemoveStep == event'.op = "removeCoupon"

\* C23: removing the applied coupon leaves no coupon applied and an empty
\* coupon input, after which the total is the undiscounted sum; no draft
\* field, no validation error and nothing of the stored draft changes.
C23_RemoveCouponFrame ==
    [][RemoveStep =>
         /\ ~appliedCoupon'.applied
         /\ couponInput' = <<>>
         /\ totalPrice' = C1_Sum'
         /\ DraftOf(Form)' = DraftOf(Form)
         /\ <<isCustomSize, agreed>>' = <<isCustomSize, agreed>>
         /\ errors' = errors
         /\ storage' = storage]_vars

\* a coupon larger than the sum was removed from a form holding validation
\* errors: the total is back from 0 to the sum
C23_Witness ==
    /\ mounted
    /\ event.op = "removeCoupon"
    /\ COUPON_CONFIG.discountAmount > C1_Sum
    /\ totalPrice = C1_Sum
    /\ errors # <<>>

\* C24: within a sync call at most one awaited operation is under way at any
\* time; a transmission has been started only with the compression settled
\* (when the compressor was called), and the retry only with the outcome of
\* the first transmission known.
C24_SequentialAwaits ==
    SyncCall =>
      /\ Cardinality(gateway.pending) <= 1
      /\ gateway.wire # <<>> =>
           /\ "compress" \notin gateway.pending
           /\ gateway.compressorCalls > 0 => gateway.compressed.def
      /\ Len(gateway.wire) = 2 =>
           /\ "send" \notin gateway.pending
           /\ gateway.errors # <<>>
      /\ ~({"send", "retry"} \subseteq gateway.pending)

\* the retry is under way, after the compressor settled and the first
\* transmission threw
C24_Witness ==
    /\ SyncCall
    /\ gateway.pending = {"retry"}
    /\ gateway.compressed.def
    /\ Len(gateway.wire) = 2
    /\ Len(gateway.errors) = 1

\* the digits d with a dash before the 5th and before the 8th
RECURSIVE C25_Dashed(_, _)
C25_Dashed(d, i) ==
    IF i > Len(d) THEN <<>>
    ELSE (IF i \in {5, 8} THEN <<"-">> ELSE <<>>) \o <<d[i]>> \o C25_Dashed(d, i + 1)

PhoneStep == event'.op = "phoneChange"

\* C25: a phone edit whose text is shorter than the current text is stored
\* verbatim; any other edit stores the first 10 digits of the text with a
\* dash after the 4th digit once a 5th exists and after the 7th once an 8th
\* exists, so the field then holds at most 10 digits and nothing but digits
\* and dashes.
C25_PhoneEdit ==
    [][ PhoneStep =>
          LET val == event'.input
              d   == DigitsOf(val)
              d10 == SubSeq(d, 1, IF Len(d) < 10 THEN Len(d) ELSE 10)
          IN  IF Len(val) < Len(phone)
                THEN phone' = val
              ELSE /\ phone' = C25_Dashed(d10, 1)
                   /\ Len(DigitsOf(phone')) <= 10
                   /\ \A i \in 1..Len(phone') : IsDigit(phone'[i]) \/ phone'[i] = "-" ]_vars

\* a text of more than 10 digits and a letter was cut and dashed
C25_Witness ==
    /\ event.op = "phoneChange"
    /\ Len(DigitsOf(event.input)) > 10
    /\ phone = CanonPhone

StoreCodeStep == event'.op = "storeCodeChange"

\* what is left of a pasted text once the code at position at, the chain
\* name, the store-number label and the brackets are taken out
C26_Remainder(val, at) ==
    Trim(ReplaceAll(
           BracketsToSpace(
             ReplaceAll(
               ReplaceAll(ReplaceFirst(val, SubSeq(val, at, at + 5), <<>>),
                          <<"7", "-", "1", "1">>, <<>>),
               <<"dian", "hao">>, <<>>)),
           StoreSuffix, StoreSuffix \o <<" ">>))

\* C26: the store-code auto-parse never throws and leaves fields unchanged
\* on failure: a text longer than 8 characters without a six-digit run
\* leaves store code and store name as they were, and a text with a
\* six-digit run but no qualifying name token leaves the store name as it
\* was.
C26_ParseLeavesFieldsOnFailure ==
    [][ StoreCodeStep =>
          LET val == event'.input
              at  == SixDigitsFrom(val, 1)
          IN  /\ ~event'.threw
              /\ (Len(val) > 8 /\ at = 0) =>
                    storeCode' = storeCode /\ storeName' = storeName
              /\ (Len(val) > 8 /\ at # 0
                    /\ SuffixMatchFrom(C26_Remainder(val, at), 1) = <<>>
                    /\ Len(FirstPart(C26_Remainder(val, at))) < 2) =>
                    storeName' = storeName ]_vars

\* the field behind an error key holds a truthy value
C27_Filled(field) ==
    CASE field = "realName"  -> realName # <<>>
      [] field = "phone"     -> phone # <<>>
      [] field = "storeCode" -> storeCode # <<>>
      [] field = "storeName" -> storeName # <<>>
      [] field = "socialId"  -> socialId # <<>>
      [] field = "wristSize" -> wristSize # <<>>
      [] field = "agreement" -> agreed

\* a user edit that changes a draft field or the agreement flag
FieldMutationStep ==
    /\ mounted /\ mounted'
    /\ event'.op \notin {"submit", "mount", "unmount"}
    /\ DraftOf(Form)' # DraftOf(Form) \/ agreed' # agreed

\* C27: after a field mutation the errors hold no entry for a field whose
\* value is non-empty (agreement: true), the entries of fields still empty
\* (agreement: false) are kept, and no entry is added.
C27_EagerClearing ==
    [][ FieldMutationStep =>
          \A i \in 1..7 :
            LET k == CanonicalOrder[i]
            IN  /\ C27_Filled(k)' => ~Contains(errors', k)
                /\ (~C27_Filled(k)' /\ Contains(errors, k)) => Contains(errors', k)
                /\ Contains(errors', k) => Contains(errors, k) ]_vars

\* after a rejected submit a phone edit: the phone entry is gone, the entry
\* of the still empty name is kept
C27_Witness ==
    /\ mounted
    /\ event.op = "phoneChange"
    /\ phone # <<>>
    /\ ~Contains(errors, "phone")
    /\ realName = <<>>
    /\ Contains(errors, "realName")

\* a new instance whose loaded draft is the empty object
MountFromEmptyStep ==
    /\ event'.op = "mount"
    /\ mounted'
    /\ event'.initialDraft = Some(EmptyObject)

\* the custom-size checkbox changed
ToggleStep == mounted /\ mounted' /\ isCustomSize' # isCustomSize

ReloadStep == mounted /\ mounted' /\ event'.op = "mount" /\ storage = CurrentDraft

\* C29: in the standard variant a reload from the saved draft keeps the
\* custom-size choice and, with no coupon applied, the total.
C29_ReloadKeepsCustomChoice ==
    [][ (ReloadStep /\ isStandard /\ ~appliedCoupon.applied) =>
          /\ isCustomSize' = isCustomSize
          /\ totalPrice' = totalPrice ]_vars

\* C30: a sync call with an empty script URL returns at once: the
\* compressor is never called, nothing is handed to fetch, nothing is
\* awaited or logged, whatever the record holds.
C30_EmptyUrlReturnsAtOnce ==
    (SyncCall /\ gateway.scriptUrl = <<>>) =>
      /\ gateway.pc \in {"called", "returned"}
      /\ gateway.compressorCalls = 0
      /\ ~gateway.compressed.def
      /\ gateway.wire = <<>>
      /\ gateway.pending = {}
      /\ gateway.log = <<>>
      /\ ~gateway.threw

\* the call returned for a record whose image would have been compressed
C30_Witness ==
    /\ SyncCall
    /\ gateway.scriptUrl = <<>>
    /\ gateway.pc = "returned"
    /\ JsTruthy(gateway.record.generatedImageUrl)
    /\ ~StartsWithHttp(gateway.record.generatedImageUrl.v)

====
